---------------------------- MODULE Spec2Model ----------------------------
(***************************************************************************)
(* Model of the financial indicator calculation engine                     *)
(* (src/modules/indicator_calculator.py, class IndicatorCalculator).       *)
(*                                                                         *)
(* Python values are modelled as records:                                  *)
(*   None                      [kind |-> "None"]                           *)
(*   a float n/d               [kind |-> "float", n |-> n, d |-> d]        *)
(*                             (d > 0, n/d in lowest terms)                *)
(*   +inf / -inf               a float with d = 0 and n = 1 / n = -1       *)
(*   nan                       a float with d = 0 and n = 0                *)
(* A double is modelled by the exact rational it stands for; the finite    *)
(* range of a double is modelled by DblMax: an operation whose exact       *)
(* result exceeds DblMax in magnitude yields an infinity, as IEEE-754      *)
(* arithmetic does (Python's float / and * do not raise on overflow).      *)
(* A dict is a function on its keys; the dict of years also records the    *)
(* insertion order of its keys.  What a call does is an outcome: either    *)
(* [kind |-> "return", value |-> v] or [kind |-> "raise", exc |-> e].      *)
(***************************************************************************)
EXTENDS Integers, Sequences, FiniteSets, TLC

(***************************************************************************)
(* Bounds of the model.                                                    *)
(***************************************************************************)
\* stand-in for the largest finite double (sys.float_info.max)
DblMax == 20000000
\* generic field values are the integers 0 .. MaxVal, TieVal and Huge
MaxVal == 1
\* the years a financial data mapping may hold are FirstYear .. FirstYear + NumYears - 1
NumYears == 2
FirstYear == 2022

(***************************************************************************)
(* Python values.                                                          *)
(***************************************************************************)
None == [kind |-> "None"]

Abs(x) == IF x < 0 THEN -x ELSE x

Sign(x) == IF x < 0 THEN -1 ELSE IF x > 0 THEN 1 ELSE 0

RECURSIVE GCD(_, _)
GCD(a, b) == IF b = 0 THEN a ELSE GCD(b, a % b)

PosInf == [kind |-> "float", n |-> 1, d |-> 0]
NegInf == [kind |-> "float", n |-> -1, d |-> 0]
NaN == [kind |-> "float", n |-> 0, d |-> 0]

Inf(sign) == IF sign < 0 THEN NegInf ELSE PosInf

\* the double n/d (d # 0), in lowest terms; an infinity when it is out of range
Float(n, d) ==
    LET g == GCD(Abs(n), Abs(d))
        nn == Sign(d) * (n \div g)
        dd == Abs(d) \div g
    IN  IF Abs(nn) \div dd > DblMax
           \/ (Abs(nn) \div dd = DblMax /\ Abs(nn) % dd # 0)
        THEN Inf(nn)
        ELSE [kind |-> "float", n |-> nn, d |-> dd]

IsFloat(v) == v.kind = "float"
IsNone(v) == v.kind = "None"
IsFinite(v) == IsFloat(v) /\ v.d > 0
IsInf(v) == IsFloat(v) /\ v.d = 0 /\ v.n # 0
IsNaN(v) == IsFloat(v) /\ v.d = 0 /\ v.n = 0

\* v == 0 for a float v (nan == 0 and inf == 0 are False)
IsZero(v) == IsFinite(v) /\ v.n = 0

(***************************************************************************)
(* Outcomes of an evaluation: a returned value or a raised exception.      *)
(***************************************************************************)
Return(v) == [kind |-> "return", value |-> v]
Raise(e) == [kind |-> "raise", exc |-> e]
IsRaise(o) == "kind" \in DOMAIN o /\ o.kind = "raise"
IsReturn(o) == "kind" \in DOMAIN o /\ o.kind = "return"

(***************************************************************************)
(* State.                                                                  *)
(***************************************************************************)
VARIABLES
    financial_data,  \* the caller's mapping {year: {statement: {field: value}}};
                     \* self.data is this same object (line 18)
    years,           \* self.years (line 19)
    fp_up,           \* how the platform's doubles fall at a rounding tie whose
                     \* decimal value no double represents exactly
    last_call,       \* the method called last, its year argument (0 when it has
                     \* none) and its other arguments
    ret,             \* the outcome of the last call
    calls,           \* calls of calculate_all_indicators that run concurrently,
                     \* each on a calculator of its own: the calculator, the
                     \* position of the call and the dict its `result` names
    heap,            \* the dicts those calls have allocated, by identity
    users_db,        \* app.py's users_db: {username: account}
    session,         \* the session cookie of each browser: {} or the
                     \* username and role that login stored in it
    report_storage,  \* app.py's report_storage: {report_id: report}
    reports_file,    \* the objects written in reports_storage.json
    operation_logs,  \* app.py's operation_logs, by the number of its entries
    now              \* the wall clock, in seconds

server == <<users_db, session, report_storage, reports_file, operation_logs, now>>

vars == <<financial_data, years, fp_up, last_call, ret, calls, heap, server>>

\* the module globals of app.py before the application is imported
NotServing ==
    /\ users_db = << >>
    /\ session = << >>
    /\ report_storage = << >>
    /\ reports_file = << >>
    /\ operation_logs = 0
    /\ now = 0

(***************************************************************************)
(* Float arithmetic: the operators -, *, / of Python on float operands     *)
(* (None operands raise TypeError), and round(x, 2).                       *)
(***************************************************************************)
\* the double (x * y) / d for integers x, y and d > 0 with x, y prime to d: an
\* infinity as soon as the integer part of |x| / d alone exceeds DblMax / |y|
Quotient(x, y, d) ==
    IF x = 0 \/ y = 0 THEN Float(0, 1)
    ELSE IF Abs(x) \div d > DblMax \div Abs(y) THEN Inf(Sign(x) * Sign(y))
    ELSE Float(x * y, d)

\* a - b
FSub(a, b) ==
    IF IsRaise(a) THEN a ELSE IF IsRaise(b) THEN b
    ELSE IF IsNone(a) \/ IsNone(b) THEN Raise("TypeError")
    ELSE IF IsNaN(a) \/ IsNaN(b) THEN NaN
    ELSE IF IsInf(a) THEN (IF IsInf(b) /\ b.n = a.n THEN NaN ELSE a)
    ELSE IF IsInf(b) THEN Inf(-b.n)
    ELSE LET g == GCD(a.d, b.d)
         IN  Float(a.n * (b.d \div g) - b.n * (a.d \div g), (a.d \div g) * b.d)

\* a * b
FMul(a, b) ==
    IF IsRaise(a) THEN a ELSE IF IsRaise(b) THEN b
    ELSE IF IsNone(a) \/ IsNone(b) THEN Raise("TypeError")
    ELSE IF IsNaN(a) \/ IsNaN(b) THEN NaN
    ELSE IF IsInf(a) \/ IsInf(b)
         THEN (IF a.n = 0 \/ b.n = 0 THEN NaN ELSE Inf(Sign(a.n) * Sign(b.n)))
    ELSE LET g1 == GCD(Abs(a.n), b.d)
             g2 == GCD(Abs(b.n), a.d)
         IN  Quotient(a.n \div g1, b.n \div g2, (a.d \div g2) * (b.d \div g1))

\* a / b
FDiv(a, b) ==
    IF IsRaise(a) THEN a ELSE IF IsRaise(b) THEN b
    ELSE IF IsNone(a) \/ IsNone(b) THEN Raise("TypeError")
    ELSE IF IsZero(b) THEN Raise("ZeroDivisionError")
    ELSE IF IsNaN(a) \/ IsNaN(b) THEN NaN
    ELSE IF IsInf(a) THEN (IF IsInf(b) THEN NaN ELSE Inf(a.n * Sign(b.n)))
    ELSE IF IsInf(b) THEN Float(0, 1)
    ELSE LET g1 == GCD(Abs(a.n), Abs(b.n))
             g2 == GCD(a.d, b.d)
         IN  Quotient((a.n \div g1) * Sign(b.n), b.d \div g2,
                      (a.d \div g2) * (Abs(b.n) \div g1))

RECURSIVE IsPow2(_)
IsPow2(d) == d = 1 \/ (d > 1 /\ d % 2 = 0 /\ IsPow2(d \div 2))

\* a double that holds its decimal value exactly: a dyadic rational
IsExact(v) == IsFinite(v) /\ IsPow2(v.d)

\* round(x, 2): the nearest multiple of 0.01.  At a tie, a value that the double
\* holds exactly (a dyadic rational computed from exact operands: `exact`) goes
\* to the even neighbour; any other tie value is not the double that was
\* computed, which lies just above or just below it (fp_up).
Round2(x, exact) ==
    IF IsRaise(x) \/ ~IsFinite(x) THEN x
    ELSE LET m == Abs(x.n)
             q == m \div x.d
             h == (m % x.d) * 100
             lo == q * 100 + (h \div x.d)
             rem == h % x.d
             up == \/ 2 * rem > x.d
                   \/ /\ 2 * rem = x.d
                      /\ IF exact /\ IsExact(x) THEN lo % 2 = 1 ELSE fp_up
         IN  Float(Sign(x.n) * (lo + (IF up THEN 1 ELSE 0)), 100)

(***************************************************************************)
(* Dicts.  Statement and field dicts are functions on their keys; the dict *)
(* of years is [order |-> its keys in insertion order, map |-> function].  *)
(* Keys: the statements '资产负债表', '利润表', '现金流量表' are written         *)
(* "balance_sheet", "income_statement", "cash_flow_statement"; the fields  *)
(* and the indicator names are written with the names of the field         *)
(* dictionary ('总资产' is "total_assets", '净利润率' is                      *)
(* "net_profit_margin", ...).                                              *)
(***************************************************************************)
EmptyDict == << >>

\* d.get(k, default)
DictGet(d, k, default) == IF k \in DOMAIN d THEN d[k] ELSE default

\* d.get(k, 0): a fault that puts 0 in the place of an absent key
GetOrZero(d, k) == DictGet(d, k, [kind |-> "float", n |-> 0, d |-> 1])

\* d.get(k)
Get(d, k) == DictGet(d, k, None)

\* a fault that takes every year for a key of d
AnyYear(d, year) == TRUE

\* year in d
Contains(d, year) == year \in DOMAIN d.map

\* d[year]
Subscript(d, year) == IF year \in DOMAIN d.map THEN d.map[year] ELSE Raise("KeyError")

\* d[key] = v
SetItem(d, key, v) ==
    [order |-> IF key \in DOMAIN d.map THEN d.order ELSE Append(d.order, key),
     map |-> [k \in DOMAIN d.map \cup {key} |-> IF k = key THEN v ELSE d.map[k]]]

\* sorted(list(d.keys()), reverse=True)
RECURSIVE InsertDesc(_, _)
InsertDesc(y, seq) ==
    IF seq = << >> THEN <<y>>
    ELSE IF y >= Head(seq) THEN <<y>> \o seq
    ELSE <<Head(seq)>> \o InsertDesc(y, Tail(seq))

\* list(d.keys()): a fault that leaves the years in the order of the caller
CallerOrder(seq) == seq

RECURSIVE SortedDesc(_)
SortedDesc(seq) == IF seq = << >> THEN << >> ELSE InsertDesc(Head(seq), SortedDesc(Tail(seq)))

(***************************************************************************)
(* IndicatorCalculator.                                                    *)
(***************************************************************************)
\* a fault that leaves the percentage indicators as fractions
Fraction == Float(1, 1)

\* a fault that takes all current assets for quick assets
AllCurrentAssets == Float(1, 1)

\* multiply=100 of the percentage indicators, and the default multiply=1.0
Percent == Float(100, 1)
DefaultMultiply == Float(1, 1)
\* the estimation factors 0.8, 0.3 and 0.2
QuickAssetsFactor == Float(8, 10)
ReceivablesFactor == Float(3, 10)
InventoryFactor == Float(2, 10)

\* fault variant: the operands are tested for truth, so a zero numerator is
\* taken for a missing one
_safe_divide_falsy(numerator, denominator, multiply) ==
    IF IsNone(numerator) \/ IsNone(denominator) THEN None
    ELSE IF IsZero(numerator) \/ IsZero(denominator) THEN None
    ELSE LET r == Round2(FMul(FDiv(numerator, denominator), multiply),
                         IsExact(numerator) /\ IsExact(denominator))
         IN  IF IsRaise(r) THEN None ELSE r

_safe_divide(numerator, denominator, multiply) ==
    IF IsNone(numerator) \/ IsNone(denominator) THEN None
    ELSE IF IsZero(denominator) THEN None
    ELSE LET r == Round2(FMul(FDiv(numerator, denominator), multiply),
                         IsExact(numerator) /\ IsExact(denominator))
         IN  IF IsRaise(r) THEN None ELSE r

\* self.data[year][statement]: a fault that subscripts the year's entry
StatementItem(self, year, statement) ==
    LET entry == Subscript(self.data, year)
    IN  IF IsRaise(entry) THEN entry
        ELSE IF statement \in DOMAIN entry THEN entry[statement]
        ELSE Raise("KeyError")

\* self.data[self.years[0]].get(statement, {}): a fault that reads the statements
\* of the most recent year
StatementOfLatest(self, year, statement) ==
    LET entry == Subscript(self.data, self.years[1])
    IN  IF IsRaise(entry) THEN entry ELSE DictGet(entry, statement, EmptyDict)

\* self.data[year].get(statement, {})
Statement(self, year, statement) ==
    LET entry == Subscript(self.data, year)
    IN  IF IsRaise(entry) THEN entry ELSE DictGet(entry, statement, EmptyDict)

NoProfitability ==
    [net_profit_margin |-> None, gross_profit_margin |-> None, return_on_equity |-> None]

\* a fault that forms the gross profit from the revenue alone when the costs
\* are missing
ProfitabilityOfRevenueAlone(balance, income) ==
    LET costs == Get(income, "operating_costs")
        gross_profit ==
            IF IsNone(Get(income, "operating_revenue")) THEN None
            ELSE IF IsNone(costs) THEN Get(income, "operating_revenue")
            ELSE FSub(Get(income, "operating_revenue"), costs)
    IN  Return([net_profit_margin |->
                    _safe_divide(Get(income, "net_profit"),
                                 Get(income, "operating_revenue"), Percent),
                gross_profit_margin |->
                    _safe_divide(gross_profit, Get(income, "operating_revenue"), Percent),
                return_on_equity |->
                    _safe_divide(Get(income, "net_profit"), Get(balance, "owners_equity"),
                                 Percent)])

\* lines 63-87
ProfitabilityOf(balance, income) ==
    LET net_profit_margin ==
            _safe_divide(Get(income, "net_profit"), Get(income, "operating_revenue"),
                         Percent)
        gross_profit ==
            IF ~IsNone(Get(income, "operating_revenue"))
               /\ ~IsNone(Get(income, "operating_costs"))
            THEN FSub(Get(income, "operating_revenue"), Get(income, "operating_costs"))
            ELSE None
        gross_profit_margin ==
            _safe_divide(gross_profit, Get(income, "operating_revenue"), Percent)
        roe ==
            _safe_divide(Get(income, "net_profit"), Get(balance, "owners_equity"),
                         Percent)
    IN  IF IsRaise(gross_profit) THEN gross_profit
        ELSE Return([net_profit_margin |-> net_profit_margin,
                     gross_profit_margin |-> gross_profit_margin,
                     return_on_equity |-> roe])

calculate_profitability_indicators(self, year) ==
    IF ~Contains(self.data, year) THEN Return(NoProfitability)
    ELSE LET balance == Statement(self, year, "balance_sheet")
             income == Statement(self, year, "income_statement")
         IN  IF IsRaise(balance) THEN balance
             ELSE IF IsRaise(income) THEN income
             ELSE ProfitabilityOf(balance, income)

NoSolvency ==
    [debt_to_asset_ratio |-> None, current_ratio |-> None, quick_ratio |-> None]

\* lines 108-132
SolvencyOf(balance) ==
    LET asset_liability_ratio ==
            _safe_divide(Get(balance, "total_liabilities"), Get(balance, "total_assets"),
                         Percent)
        current_ratio ==
            _safe_divide(Get(balance, "current_assets"),
                         Get(balance, "current_liabilities"), DefaultMultiply)
        quick_assets ==
            IF ~IsNone(Get(balance, "current_assets"))
            THEN FMul(Get(balance, "current_assets"), QuickAssetsFactor)
            ELSE Get(balance, "current_assets")
        quick_ratio ==
            _safe_divide(quick_assets, Get(balance, "current_liabilities"),
                         DefaultMultiply)
    IN  IF IsRaise(quick_assets) THEN quick_assets
        ELSE Return([debt_to_asset_ratio |-> asset_liability_ratio,
                     current_ratio |-> current_ratio,
                     quick_ratio |-> quick_ratio])

calculate_solvency_indicators(self, year) ==
    IF ~Contains(self.data, year) THEN Return(NoSolvency)
    ELSE LET balance == Statement(self, year, "balance_sheet")
         IN  IF IsRaise(balance) THEN balance ELSE SolvencyOf(balance)

NoOperation ==
    [receivables_turnover |-> None, inventory_turnover |-> None,
     total_asset_turnover |-> None]

\* a fault that turns the inventory over on the revenue, not on the costs
OperationOfRevenue(balance, income) ==
    LET inventory ==
            IF ~IsNone(Get(balance, "current_assets"))
            THEN FMul(Get(balance, "current_assets"), InventoryFactor)
            ELSE None
        receivables ==
            IF ~IsNone(Get(balance, "current_assets"))
            THEN FMul(Get(balance, "current_assets"), ReceivablesFactor)
            ELSE None
    IN  Return([receivables_turnover |->
                    _safe_divide(Get(income, "operating_revenue"), receivables,
                                 DefaultMultiply),
                inventory_turnover |->
                    _safe_divide(Get(income, "operating_revenue"), inventory,
                                 DefaultMultiply),
                total_asset_turnover |->
                    _safe_divide(Get(income, "operating_revenue"),
                                 Get(balance, "total_assets"), DefaultMultiply)])

\* lines 154-180
OperationOf(balance, income) ==
    LET receivables ==
            IF ~IsNone(Get(balance, "current_assets"))
            THEN FMul(Get(balance, "current_assets"), ReceivablesFactor)
            ELSE Get(balance, "current_assets")
        receivables_turnover ==
            _safe_divide(Get(income, "operating_revenue"), receivables, DefaultMultiply)
        inventory ==
            IF ~IsNone(Get(balance, "current_assets"))
            THEN FMul(Get(balance, "current_assets"), InventoryFactor)
            ELSE Get(balance, "current_assets")
        inventory_turnover ==
            _safe_divide(Get(income, "operating_costs"), inventory, DefaultMultiply)
        total_asset_turnover ==
            _safe_divide(Get(income, "operating_revenue"), Get(balance, "total_assets"),
                         DefaultMultiply)
    IN  IF IsRaise(receivables) THEN receivables
        ELSE IF IsRaise(inventory) THEN inventory
        ELSE Return([receivables_turnover |-> receivables_turnover,
                     inventory_turnover |-> inventory_turnover,
                     total_asset_turnover |-> total_asset_turnover])

\* a fault that divides by the balances of the year before, where the data
\* hold that year
calculate_operation_on_opening_balances(self, year) ==
    IF ~Contains(self.data, year) THEN Return(NoOperation)
    ELSE LET opening == IF Contains(self.data, year - 1) THEN year - 1 ELSE year
             balance == Statement(self, opening, "balance_sheet")
             income == Statement(self, year, "income_statement")
         IN  IF IsRaise(balance) THEN balance
             ELSE IF IsRaise(income) THEN income
             ELSE OperationOf(balance, income)

calculate_operation_indicators(self, year) ==
    IF ~Contains(self.data, year) THEN Return(NoOperation)
    ELSE LET balance == Statement(self, year, "balance_sheet")
             income == Statement(self, year, "income_statement")
         IN  IF IsRaise(balance) THEN balance
             ELSE IF IsRaise(income) THEN income
             ELSE OperationOf(balance, income)

NoCashflow ==
    [cash_to_profit_ratio |-> None, operating_cash_flow |-> None,
     net_cash_increase |-> None]

\* a fault that rounds the two pass-through values like the ratios
CashflowOfRounded(income, cashflow) ==
    Return([cash_to_profit_ratio |->
                _safe_divide(Get(cashflow, "operating_cash_flow"),
                             Get(income, "net_profit"), DefaultMultiply),
            operating_cash_flow |->
                Round2(Get(cashflow, "operating_cash_flow"), TRUE),
            net_cash_increase |->
                Round2(Get(cashflow, "net_cash_increase"), TRUE)])

\* lines 202-218
CashflowOf(income, cashflow) ==
    LET cash_profit_ratio ==
            _safe_divide(Get(cashflow, "operating_cash_flow"), Get(income, "net_profit"),
                         DefaultMultiply)
        operating_cashflow == Get(cashflow, "operating_cash_flow")
        cash_increase == Get(cashflow, "net_cash_increase")
    IN  Return([cash_to_profit_ratio |-> cash_profit_ratio,
                operating_cash_flow |-> operating_cashflow,
                net_cash_increase |-> cash_increase])

calculate_cashflow_indicators(self, year) ==
    IF ~Contains(self.data, year) THEN Return(NoCashflow)
    ELSE LET income == Statement(self, year, "income_statement")
             cashflow == Statement(self, year, "cash_flow_statement")
         IN  IF IsRaise(income) THEN income
             ELSE IF IsRaise(cashflow) THEN cashflow
             ELSE CashflowOf(income, cashflow)

\* the entry result[year] of lines 230-235: the dimensions '盈利风险', '偿债风险',
\* '运营风险', '现金流风险' are evaluated in this order (each once: p, s, o, c are
\* their outcomes), and the first exception raised, if any, is the outcome
YearEntry(self, year) ==
    CHOOSE entry \in
        {IF IsRaise(p) THEN p
         ELSE IF IsRaise(s) THEN s
         ELSE IF IsRaise(o) THEN o
         ELSE IF IsRaise(c) THEN c
         ELSE Return([Profitability |-> p.value, Solvency |-> s.value,
                      Operations |-> o.value, CashFlow |-> c.value]) :
            p \in {calculate_profitability_indicators(self, year)},
            s \in {calculate_solvency_indicators(self, year)},
            o \in {calculate_operation_indicators(self, year)},
            c \in {calculate_cashflow_indicators(self, year)}} : TRUE

Range(seq) == {seq[i] : i \in DOMAIN seq}

\* the positions of self.years whose entry raises
Raising(self) == {i \in DOMAIN self.years : IsRaise(YearEntry(self, self.years[i]))}

\* a fault that leaves out the years whose entry holds no statement
calculate_all_with_statements(self) ==
    IF Raising(self) # {}
    THEN YearEntry(self, self.years[CHOOSE i \in Raising(self) : \A j \in Raising(self) : i <= j])
    ELSE LET kept == SelectSeq(self.years, LAMBDA y : DOMAIN self.data.map[y] # {})
         IN  Return([order |-> kept,
                     map |-> [year \in Range(kept) |-> YearEntry(self, year).value]])

\* each year's entry is computed once, in the order of self.years; the first
\* one that raises ends the call
calculate_all_indicators(self) ==
    CHOOSE outcome \in
        {LET raising == {i \in DOMAIN entries : IsRaise(entries[i])}
         IN  IF raising # {}
             THEN entries[CHOOSE i \in raising : \A j \in raising : i <= j]
             ELSE Return([order |-> self.years,
                          map |-> [year \in Range(self.years) |->
                                      entries[CHOOSE i \in DOMAIN entries :
                                                 self.years[i] = year].value]]) :
            entries \in {[i \in DOMAIN self.years |-> YearEntry(self, self.years[i])]}} :
        TRUE

(***************************************************************************)
(* The inputs: financial data of the documented shape.                     *)
(***************************************************************************)
Statements == {"balance_sheet", "income_statement", "cash_flow_statement"}

FieldsOf(statement) ==
    CASE statement = "balance_sheet" ->
            {"total_assets", "total_liabilities", "current_assets",
             "current_liabilities", "owners_equity"}
      [] statement = "income_statement" ->
            {"operating_revenue", "operating_costs", "net_profit"}
      [] statement = "cash_flow_statement" ->
            {"operating_cash_flow", "net_cash_increase"}

Fields == UNION {FieldsOf(s) : s \in Statements}

\* the fields each per-year calculator reads
ProfitabilityInputs == {"net_profit", "operating_revenue", "operating_costs", "owners_equity"}
SolvencyInputs == {"total_liabilities", "total_assets", "current_assets", "current_liabilities"}
OperationInputs == {"operating_revenue", "operating_costs", "current_assets", "total_assets"}
CashflowInputs == {"operating_cash_flow", "net_cash_increase", "net_profit"}
InputGroups == {ProfitabilityInputs, SolvencyInputs, OperationInputs, CashflowInputs}

\* the largest finite double
Huge == Float(DblMax, 1)
\* a value whose quotients hit rounding ties (1/8 = 0.125)
TieVal == 2 * 2 * 2
Nums == {Float(v, 1) : v \in 0..MaxVal} \cup {Float(TieVal, 1), Huge}

\* a cell of the source: a number, None (an empty or unparseable cell) or no key
Absent == [kind |-> "absent"]
Cells == Nums \cup {None, Absent}
DefaultCell == Float(2, 1)

\* the year entry with the statements `present`, holding the cells of c that are keys
Entry(present, c) ==
    [s \in present |-> [f \in {g \in FieldsOf(s) : c[g] # Absent} |-> c[f]]]

\* every combination of cells for the inputs of one calculator, all statements present
SliceEntries ==
    UNION {{Entry(Statements, [f \in Fields |-> IF f \in G THEN c[f] ELSE DefaultCell]) :
              c \in [G -> Cells]} : G \in InputGroups}

\* every combination of present statements
StatementEntries ==
    {Entry(present, [f \in Fields |-> v]) :
       present \in SUBSET Statements, v \in {None, DefaultCell}}

\* Scenario A and P3-P5 of the specification's testable properties: one year, complete
FixtureA ==
    [balance_sheet |->
        [total_assets |-> Float(10000000, 1), total_liabilities |-> Float(6000000, 1),
         current_assets |-> Float(6000000, 1), current_liabilities |-> Float(4000000, 1),
         owners_equity |-> Float(4000000, 1)],
     income_statement |->
        [operating_revenue |-> Float(10000000, 1), operating_costs |-> Float(7000000, 1),
         net_profit |-> Float(900000, 1)],
     cash_flow_statement |->
        [operating_cash_flow |-> Float(12345678, 100),
         net_cash_increase |-> Float(33333, 1000)]]

\* a loss-making year with decimals, an empty cell and a rounding tie (1 / 40)
FixtureB ==
    [balance_sheet |->
        [total_assets |-> Float(33333, 1000), total_liabilities |-> Float(100, 1),
         current_assets |-> Float(1, 1), current_liabilities |-> Float(40, 1),
         owners_equity |-> Float(-3, 1)],
     income_statement |->
        [operating_revenue |-> Float(100, 1), operating_costs |-> Float(33333, 1000),
         net_profit |-> Float(-1, 8)],
     cash_flow_statement |->
        [operating_cash_flow |-> Float(-7, 3), net_cash_increase |-> None]]

Profiles == {FixtureA, FixtureB, EmptyDict}

Years == FirstYear .. (FirstYear + NumYears - 1)
LastYear == FirstYear + NumYears - 1

\* the orders in which a caller can have inserted the years ys
Orders(ys) ==
    {seq \in [1..Cardinality(ys) -> ys] : \A i, j \in 1..Cardinality(ys) : i # j => seq[i] # seq[j]}

\* one year, drawn from the slices
SingleYearData ==
    {[order |-> <<LastYear>>, map |-> [y \in {LastYear} |-> e]] :
       e \in SliceEntries \cup StatementEntries}

\* any years in any order, each drawn from the profiles
MultiYearData ==
    UNION {UNION {{[order |-> seq, map |-> m] : m \in [ys -> Profiles]} : seq \in Orders(ys)} :
             ys \in SUBSET Years}

FinancialData == SingleYearData \cup MultiYearData

(***************************************************************************)
(* The state machine: a calculator is constructed on some financial data;  *)
(* its caller then calls its methods, one call at a time, in any order and *)
(* any number of times, taking each result before the next call.           *)
(***************************************************************************)
Self == [data |-> financial_data, years |-> years]

\* IndicatorCalculator(data): __init__ (lines 18-19)
IndicatorCalculator(data) == [data |-> data, years |-> SortedDesc(data.order)]

Idle == [op |-> "idle", year |-> 0, args |-> << >>]

\* __init__ (lines 18-19)
Init ==
    /\ financial_data \in FinancialData
    /\ years = SortedDesc(financial_data.order)
    /\ fp_up \in BOOLEAN
    /\ last_call = Idle
    /\ ret = Return(None)
    /\ calls = << >>
    /\ heap = << >>
    /\ NotServing

\* a fault by which a call uses up the years it has processed
CallConsuming(op, year, args, outcome) ==
    /\ last_call = Idle
    /\ last_call' = [op |-> op, year |-> year, args |-> args]
    /\ ret' = outcome
    /\ years' = << >>
    /\ UNCHANGED <<financial_data, fp_up, calls, heap, server>>

Call(op, year, args, outcome) ==
    /\ last_call = Idle
    /\ last_call' = [op |-> op, year |-> year, args |-> args]
    /\ ret' = outcome
    /\ UNCHANGED <<financial_data, years, fp_up, calls, heap, server>>

CallProfitability(year) ==
    Call("calculate_profitability_indicators", year, << >>,
         calculate_profitability_indicators(Self, year))

CallSolvency(year) ==
    Call("calculate_solvency_indicators", year, << >>,
         calculate_solvency_indicators(Self, year))

CallOperation(year) ==
    Call("calculate_operation_indicators", year, << >>,
         calculate_operation_indicators(Self, year))

CallCashflow(year) ==
    Call("calculate_cashflow_indicators", year, << >>,
         calculate_cashflow_indicators(Self, year))

CallAll == Call("calculate_all_indicators", 0, << >>, calculate_all_indicators(Self))

\* the caller has taken the result of the last call
TakeResult ==
    /\ last_call # Idle
    /\ last_call' = Idle
    /\ ret' = Return(None)
    /\ UNCHANGED <<financial_data, years, fp_up, calls, heap, server>>

Next ==
    \/ \E year \in Years : CallProfitability(year)
    \/ \E year \in Years : CallSolvency(year)
    \/ \E year \in Years : CallOperation(year)
    \/ \E year \in Years : CallCashflow(year)
    \/ CallAll
    \/ TakeResult

Spec == Init /\ [][Next]_vars

(***************************************************************************)
(* _safe_divide on its own: a calculator on empty data whose _safe_divide  *)
(* is called with every combination of operands.                           *)
(***************************************************************************)
\* a negative dyadic value and a value no double holds exactly
Operands == Nums \cup {None, Float(-1, TieVal), Float(1, 3)}
Multiplies == {Percent, DefaultMultiply}

InitSafeDivide ==
    /\ financial_data = [order |-> << >>, map |-> EmptyDict]
    /\ years = SortedDesc(financial_data.order)
    /\ fp_up \in BOOLEAN
    /\ last_call = Idle
    /\ ret = Return(None)
    /\ calls = << >>
    /\ heap = << >>
    /\ NotServing

CallSafeDivide(numerator, denominator, multiply) ==
    Call("_safe_divide", 0, <<numerator, denominator, multiply>>,
         Return(_safe_divide(numerator, denominator, multiply)))

NextSafeDivide ==
    \/ \E numerator \in Operands, denominator \in Operands, multiply \in Multiplies :
          CallSafeDivide(numerator, denominator, multiply)
    \/ TakeResult

SpecSafeDivide == InitSafeDivide /\ [][NextSafeDivide]_vars

(***************************************************************************)
(* Concurrent calls: two callers, each with a calculator constructed on an *)
(* input of its own, call calculate_all_indicators; the iterations of the  *)
(* two loops interleave in any way.                                        *)
(***************************************************************************)
Callers == {"a", "b"}

\* the inputs of the callers (the order of insertion plays no part here)
ConcurrentInputs == {d \in MultiYearData : d.order = SortedDesc(d.order)}

\* a dict two calls share: a fault by which result is no local of the call
SharedDict(c) == "a"

\* result = {} (line 227): a new dict, which no other call holds
NewDict(c) == c

InitConcurrent ==
    /\ financial_data = [order |-> << >>, map |-> EmptyDict]
    /\ years = SortedDesc(financial_data.order)
    /\ fp_up \in BOOLEAN
    /\ last_call = Idle
    /\ ret = Return(None)
    /\ calls \in [Callers -> {[self |-> IndicatorCalculator(d), pc |-> "ready",
                               pos |-> 0, result |-> ""] : d \in ConcurrentInputs}]
    /\ heap = << >>
    /\ NotServing

\* line 227
BeginAll(c) ==
    /\ calls[c].pc = "ready"
    /\ calls' = [calls EXCEPT ![c].pc = "loop", ![c].pos = 1, ![c].result = NewDict(c)]
    /\ heap' = [a \in DOMAIN heap \cup {NewDict(c)} |->
                   IF a = NewDict(c) THEN [order |-> << >>, map |-> EmptyDict]
                   ELSE heap[a]]
    /\ UNCHANGED <<financial_data, years, fp_up, last_call, ret, server>>

\* one iteration of the loop of lines 229-235
StepAll(c) ==
    /\ calls[c].pc = "loop"
    /\ calls[c].pos <= Len(calls[c].self.years)
    /\ LET year == calls[c].self.years[calls[c].pos]
           entry == YearEntry(calls[c].self, year)
       IN  IF IsRaise(entry)
           THEN /\ calls' = [calls EXCEPT ![c].pc = "raised"]
                /\ UNCHANGED heap
           ELSE /\ calls' = [calls EXCEPT ![c].pos = @ + 1]
                /\ heap' = [heap EXCEPT ![calls[c].result] = SetItem(@, year, entry.value)]
    /\ UNCHANGED <<financial_data, years, fp_up, last_call, ret, server>>

\* line 237
ReturnAll(c) ==
    /\ calls[c].pc = "loop"
    /\ calls[c].pos > Len(calls[c].self.years)
    /\ calls' = [calls EXCEPT ![c].pc = "returned"]
    /\ UNCHANGED <<financial_data, years, fp_up, last_call, ret, heap, server>>

NextConcurrent ==
    \/ \E c \in Callers : BeginAll(c)
    \/ \E c \in Callers : StepAll(c)
    \/ \E c \in Callers : ReturnAll(c)

SpecConcurrent == InitConcurrent /\ [][NextConcurrent]_vars

(***************************************************************************)
(* The loaders of the income statement ('利润表') of one year: from the     *)
(* Excel sheet (DataProcessor.get_financial_data) and from the database    *)
(* (get_profit_statement_from_db of app.py and                             *)
(* TaxDataAdapter._load_profit_statement).  A source is a function from    *)
(* the fields to cells: Absent (no column of that name, no row of that     *)
(* project), Null (None, NaN, SQL NULL), Text (a non-empty string that     *)
(* float() cannot parse) or a number.                                      *)
(***************************************************************************)
Null == [kind |-> "null"]
Text == [kind |-> "text"]

SourceCells ==
    {Absent, Null, Text} \cup {Float(v, 1) : v \in 0..MaxVal} \cup {Float(-1, TieVal)}

IncomeFields == FieldsOf("income_statement")
Sources == [IncomeFields -> SourceCells]

\* pd.isna(value)
isna(value) == value = Null

\* float(value)
ToFloat(value) == IF value = Text THEN Raise("ValueError") ELSE value

\* bool(value): None and a number equal to 0 are false
Truthy(value) == value # Null /\ ~(IsFloat(value) /\ IsZero(value))

\* DataProcessor.get_financial_data (lines 125-139): every field is a key
get_financial_data(source) ==
    Return([f \in IncomeFields |->
               IF source[f] = Absent THEN None
               ELSE IF isna(source[f]) THEN None
               ELSE IF IsRaise(ToFloat(source[f])) THEN None
               ELSE ToFloat(source[f])])

\* float(value) if value else None (app.py, line 1365)
TruthyToFloat(value) == IF Truthy(value) THEN ToFloat(value) ELSE None

\* get_profit_statement_from_db (app.py, lines 1361-1368): the rows found are
\* the keys; the first row that float() rejects ends the call
get_profit_statement_from_db(source) ==
    LET rows == {f \in IncomeFields : source[f] # Absent}
    IN  IF \E f \in rows : IsRaise(TruthyToFloat(source[f])) THEN Raise("ValueError")
        ELSE Return([f \in rows |-> TruthyToFloat(source[f])])

\* float(value) if value is not None else None (tax_data_adapter.py, line 237)
FloatOrNone(value) == IF value # Null THEN ToFloat(value) ELSE None

\* TaxDataAdapter._load_profit_statement (lines 230-242): the rows found, then
\* every other field as None
_load_profit_statement(source) ==
    LET rows == {f \in IncomeFields : source[f] # Absent}
    IN  IF \E f \in rows : IsRaise(FloatOrNone(source[f])) THEN Raise("ValueError")
        ELSE Return([f \in IncomeFields |->
                        IF f \in rows THEN FloatOrNone(source[f]) ELSE None])

InitLoaders ==
    /\ financial_data = [order |-> << >>, map |-> EmptyDict]
    /\ years = SortedDesc(financial_data.order)
    /\ fp_up = FALSE
    /\ last_call = Idle
    /\ ret = Return(None)
    /\ calls = << >>
    /\ heap = << >>
    /\ NotServing

CallGetFinancialData(source) ==
    Call("get_financial_data", 0, <<source>>, get_financial_data(source))

CallGetProfitStatementFromDb(source) ==
    Call("get_profit_statement_from_db", 0, <<source>>,
         get_profit_statement_from_db(source))

CallLoadProfitStatement(source) ==
    Call("_load_profit_statement", 0, <<source>>, _load_profit_statement(source))

NextLoaders ==
    \/ \E source \in Sources : CallGetFinancialData(source)
    \/ \E source \in Sources : CallGetProfitStatementFromDb(source)
    \/ \E source \in Sources : CallLoadProfitStatement(source)
    \/ TakeResult

SpecLoaders == InitLoaders /\ [][NextLoaders]_vars

(***************************************************************************)
(* The narration prompt of a dimension (ReportGenerator.generate_report,   *)
(* lines 56-76, and AIAnalyzer._build_risk_analysis_prompt): its year      *)
(* comparison section.  The dimensions '盈利风险', '偿债风险', '运营风险',       *)
(* '现金流风险' are written "Profitability", "Solvency", "Operations",       *)
(* "CashFlow"; the trends '上升', '下降', '持平' are written "rising",         *)
(* "falling", "flat".                                                      *)
(***************************************************************************)
\* the sign of a float: what x > 0 and x < 0 give (both False for nan)
FSign(x) == IF IsNaN(x) THEN 0 ELSE Sign(x.n)

\* a fault that reports the trend the wrong way round
TrendOfOldMinusNew(change) ==
    IF FSign(change) < 0 THEN "rising" ELSE IF FSign(change) > 0 THEN "falling" ELSE "flat"

\* ai_analyzer.py, line 278
TrendOf(change) ==
    IF FSign(change) > 0 THEN "rising" ELSE IF FSign(change) < 0 THEN "falling" ELSE "flat"

\* ai_analyzer.py, lines 251 and 270-279: the years compared and, for each
\* indicator with a value in both of them, its line: the trend and the change
\* as '+.2f' prints it
_build_risk_analysis_prompt(indicators, year_data) ==
    LET ys == SortedDesc(year_data.order)
        val_new(i) == Get(year_data.map[ys[1]], i)
        val_old(i) == Get(year_data.map[ys[2]], i)
    IN  IF Len(ys) >= 2
        THEN [compared |-> <<ys[1], ys[2]>>,
              lines |-> [i \in {k \in DOMAIN indicators :
                                  ~IsNone(val_new(k)) /\ ~IsNone(val_old(k))} |->
                            [trend |-> TrendOf(FSub(val_new(i), val_old(i))),
                             change |-> Round2(FSub(val_new(i), val_old(i)),
                                               IsExact(val_new(i)) /\ IsExact(val_old(i)))]]]
        ELSE [compared |-> << >>, lines |-> EmptyDict]

\* DataProcessor.get_years: the two most recent years (data_processor.py, line 81)
TwoMostRecent(ys) == SubSeq(SortedDesc(ys), 1, IF Len(ys) < 2 THEN Len(ys) ELSE 2)

\* report_generator.py, lines 56-76, for one dimension: the prompt built from
\* the indicators of the current year and the dimension's values of each year
DimensionPrompt(data, dimension) ==
    CHOOSE prompt \in
        {LET report_years == TwoMostRecent(data.order)
             indicators ==
                 IF report_years = << >> THEN EmptyDict
                 ELSE DictGet(DictGet(all_indicators.map, report_years[1], EmptyDict),
                              dimension, EmptyDict)
             year_data ==
                 [order |-> report_years,
                  map |-> [y \in Range(report_years) |->
                              DictGet(DictGet(all_indicators.map, y, EmptyDict),
                                      dimension, EmptyDict)]]
         IN  _build_risk_analysis_prompt(indicators, year_data) :
            all_indicators \in {calculate_all_indicators(IndicatorCalculator(data)).value}} :
        TRUE

InitNarration ==
    /\ financial_data \in MultiYearData
    /\ years = SortedDesc(financial_data.order)
    /\ fp_up \in BOOLEAN
    /\ last_call = Idle
    /\ ret = Return(None)
    /\ calls = << >>
    /\ heap = << >>
    /\ NotServing

BuildPrompt(dimension) ==
    Call("_build_risk_analysis_prompt", 0, <<dimension>>,
         Return(DimensionPrompt(financial_data, dimension)))

NextNarration ==
    \/ \E dimension \in {"Profitability", "Solvency", "Operations", "CashFlow"} :
          BuildPrompt(dimension)
    \/ TakeResult

SpecNarration == InitNarration /\ [][NextNarration]_vars

(***************************************************************************)
(* The charts (ChartGenerator, chart_generator.py, and EChartsGenerator,   *)
(* echarts_generator.py).  A chart is the data series it plots, one value  *)
(* per year; None in a series is a point the plotting library leaves out.  *)
(* The chart and series names are written in English, as the indicators    *)
(* are: '销售净利率' is "sales_net_margin".                                  *)
(***************************************************************************)
ChartNames ==
    <<"main_indicators", "profitability", "solvency", "operational", "cashflow",
      "risk_radar", "health_dashboard">>

Generators == {"ChartGenerator", "EChartsGenerator"}

\* the series of a chart, each with the dimension whose key it reads
\* (chart_generator.py, lines 238-250, 326-336, 406-412, 473-486, 546-549;
\* echarts_generator.py, lines 82-92, 173-178, 264-273, 336-339, 602-615)
SeriesKeys(generator, chart) ==
    CASE chart = "main_indicators" ->
            {<<"", "operating_revenue">>, <<"", "net_profit">>,
             <<"Solvency", "debt_to_asset_ratio">>,
             <<"Profitability", "return_on_equity">>,
             <<"Solvency", "current_ratio">>}
      [] chart = "profitability" ->
            {<<"Profitability",
               IF generator = "EChartsGenerator" THEN "sales_net_margin"
               ELSE "net_profit_margin">>,
             <<"Profitability", "gross_profit_margin">>,
             <<"Profitability", "return_on_equity">>}
      [] chart = "solvency" ->
            {<<"Solvency", "current_ratio">>, <<"Solvency", "quick_ratio">>,
             <<"Solvency", "debt_to_asset_ratio">>}
      [] chart = "operational" ->
            {<<"Operations", "receivables_turnover">>,
             <<"Operations", "inventory_turnover">>,
             <<"Operations", "total_asset_turnover">>}
      [] chart = "cashflow" ->
            {<<"CashFlow", "operating_cash_flow">>, <<"CashFlow", "cash_to_profit_ratio">>}
      [] OTHER -> {}

\* d.get(key, 0): the value under the key, None included; 0 only for an absent key
Plotted(d, key) == DictGet(d, key, Float(0, 1))

\* the values appended year by year: indicators.get(year, {}).get(dimension, {})
\* .get(metric, 0), and year_indicators.get(metric, 0) where the chart reads the
\* year's entry itself
SeriesValues(report_years, indicators, key) ==
    [k \in 1..Len(report_years) |->
        LET year_indicators == DictGet(indicators.map, report_years[k], EmptyDict)
        IN  IF key[1] = "" THEN Plotted(year_indicators, key[2])
            ELSE Plotted(DictGet(year_indicators, key[1], EmptyDict), key[2])]

ChartSeries(generator, chart, report_years, indicators) ==
    [key \in SeriesKeys(generator, chart) |-> SeriesValues(report_years, indicators, key)]

\* the bar labels f"{v:.2f}" and f'{v:,.0f}' (chart_generator.py, lines 491 and
\* 558): formatting None raises
FormatsValues(chart) == chart \in {"operational", "cashflow"}

\* fig.update_layout(**self.layout_config, title=...): layout_config has a
\* 'title' of its own (lines 88-92), which only the main chart removes (line 276)
RepeatsTitle(chart) == chart # "main_indicators"

\* one chart of ChartGenerator: what it plots, or the exception it raises
PlotlyChart(chart, report_years, indicators) ==
    LET series == ChartSeries("ChartGenerator", chart, report_years, indicators)
    IN  IF /\ FormatsValues(chart)
           /\ \E key \in DOMAIN series : \E k \in DOMAIN series[key] : IsNone(series[key][k])
        THEN Raise("TypeError: unsupported format string passed to NoneType.__format__")
        ELSE IF RepeatsTitle(chart)
        THEN Raise("TypeError: got multiple values for keyword argument 'title'")
        ELSE Return(series)

\* one chart of EChartsGenerator: json.dumps of the option, null for None
EChart(chart, report_years, indicators) ==
    Return(ChartSeries("EChartsGenerator", chart, report_years, indicators))

GenerateChart(generator, chart, report_years, indicators) ==
    IF generator = "ChartGenerator" THEN PlotlyChart(chart, report_years, indicators)
    ELSE EChart(chart, report_years, indicators)

\* the charts made before the first one that raises: the one try block of
\* generate_all_charts (chart_generator.py, lines 118-159; echarts_generator.py,
\* lines 50-77)
RECURSIVE ChartsFrom(_, _, _, _, _)
ChartsFrom(n, charts, generator, report_years, indicators) ==
    IF n > Len(ChartNames) THEN charts
    ELSE LET made == GenerateChart(generator, ChartNames[n], report_years, indicators)
         IN  IF IsRaise(made) THEN charts
             ELSE ChartsFrom(n + 1,
                             [c \in DOMAIN charts \cup {ChartNames[n]} |->
                                 IF c = ChartNames[n] THEN made.value ELSE charts[c]],
                             generator, report_years, indicators)

generate_all_charts(generator, report_years, indicators) ==
    IF generator = "ChartGenerator" /\ (report_years = << >> \/ indicators.order = << >>)
    THEN Return(EmptyDict)
    ELSE Return(ChartsFrom(1, EmptyDict, generator, report_years, indicators))

\* the report's years and indicators (report_generator.py, lines 52-57 and 88-94)
ReportCharts(data, generator, chart) ==
    CHOOSE outcome \in
        {IF chart = "" THEN generate_all_charts(generator, TwoMostRecent(data.order),
                                                all_indicators)
         ELSE GenerateChart(generator, chart, TwoMostRecent(data.order), all_indicators) :
            all_indicators \in {calculate_all_indicators(IndicatorCalculator(data)).value}} :
        TRUE

InitCharts ==
    /\ financial_data \in MultiYearData
    /\ years = SortedDesc(financial_data.order)
    /\ fp_up \in BOOLEAN
    /\ last_call = Idle
    /\ ret = Return(None)
    /\ calls = << >>
    /\ heap = << >>
    /\ NotServing

GenerateAllCharts(generator) ==
    Call("generate_all_charts", 0, <<generator>>,
         ReportCharts(financial_data, generator, ""))

GenerateOneChart(generator, chart) ==
    Call("_generate_chart", 0, <<generator, chart>>,
         ReportCharts(financial_data, generator, chart))

NextCharts ==
    \/ \E generator \in Generators : GenerateAllCharts(generator)
    \/ \E generator \in Generators : \E chart \in Range(ChartNames) :
          GenerateOneChart(generator, chart)
    \/ TakeResult

SpecCharts == InitCharts /\ [][NextCharts]_vars

\* the dimensions of a year's entry and the indicators of each
\* (indicator_calculator.py, lines 231-236, 83-87, 128-132, 176-180, 214-218)
Dimensions == {"Profitability", "Solvency", "Operations", "CashFlow"}

\* the per-year calculator behind each dimension
CalculatorOf(dimension) ==
    CASE dimension = "Profitability" -> "calculate_profitability_indicators"
      [] dimension = "Solvency" -> "calculate_solvency_indicators"
      [] dimension = "Operations" -> "calculate_operation_indicators"
      [] dimension = "CashFlow" -> "calculate_cashflow_indicators"

\* the indicators each per-year calculator returns
IndicatorsOf(op) ==
    CASE op = "calculate_profitability_indicators" ->
            {"net_profit_margin", "gross_profit_margin", "return_on_equity"}
      [] op = "calculate_solvency_indicators" ->
            {"debt_to_asset_ratio", "current_ratio", "quick_ratio"}
      [] op = "calculate_operation_indicators" ->
            {"receivables_turnover", "inventory_turnover", "total_asset_turnover"}
      [] op = "calculate_cashflow_indicators" ->
            {"cash_to_profit_ratio", "operating_cash_flow", "net_cash_increase"}

(***************************************************************************)
(* The renderings of an indicator value for display and export.  A         *)
(* rendering is a text: either a literal one, or the digits of a number    *)
(* in the format the code asks for, followed by a unit.  The literal texts  *)
(* '【数据缺失】', '数据缺失' and '—' are written "[data missing]", "data       *)
(* missing" and "-", the unit '万元' "10k yuan", the arrows '↑' and '↓'      *)
(* "up" and "down".                                                        *)
(***************************************************************************)
Literal(text) == [kind |-> "literal", text |-> text]

\* f"{value}{unit}": the shortest digits that read back as the value
ReprText(value, unit) == [kind |-> "repr", value |-> value, unit |-> unit]

\* f"{value:.2f}{unit}" and f"{value:,.2f}": two decimals ('inf' and 'nan' as
\* they are), with thousands separators when grouped
FixedText(value, grouped, unit) ==
    [kind |-> "fixed", value |-> Round2(value, IsExact(value)), unit |-> unit,
     grouped |-> grouped]

\* a fault that shows a missing value as an empty text
format_blank_when_missing(value, unit) ==
    IF IsNone(value) THEN Literal("") ELSE ReprText(value, unit)

\* indicator_calculator.py, lines 239-252
format_indicator_value(value, unit) ==
    IF IsNone(value) THEN Literal("[data missing]") ELSE ReprText(value, unit)

\* abs(value) >= 10000 (report_generator.py, line 143)
LargeNumber == 10000

\* report_generator.py, lines 128-146, with the default decimal_places
format_number(value) ==
    IF IsNone(value) THEN Literal("[data missing]")
    ELSE IF IsInf(value) \/ (IsFinite(value) /\ Abs(value.n) >= LargeNumber * value.d)
    THEN FixedText(value, TRUE, "")
    ELSE FixedText(value, FALSE, "")

\* export_generator.py, lines 884-901
_get_indicator_unit(indicator_name) ==
    IF indicator_name \in {"net_profit_margin", "gross_profit_margin", "return_on_equity",
                           "debt_to_asset_ratio"}
    THEN "%"
    ELSE IF indicator_name \in {"operating_cash_flow", "net_cash_increase"}
    THEN "10k yuan"
    ELSE ""

\* a cell of an indicator table (export_generator.py, lines 393-396, 401-402,
\* 416, 776-779, 783-786)
ValueCell(value, unit) ==
    IF ~IsNone(value) THEN FixedText(value, FALSE, unit) ELSE Literal("data missing")

\* the change cell of the Word table (lines 401-417)
ChangeCell(value, prev_value) ==
    IF ~IsNone(prev_value) /\ ~IsNone(value)
    THEN LET change == FSub(value, prev_value)
         IN  IF FSign(change) > 0
             THEN [kind |-> "change",
                   value |-> Round2(change, IsExact(value) /\ IsExact(prev_value)),
                   arrow |-> "up"]
             ELSE IF FSign(change) < 0
             THEN [kind |-> "change",
                   value |-> Round2(FSub(prev_value, value),
                                    IsExact(value) /\ IsExact(prev_value)),
                   arrow |-> "down"]
             ELSE Literal("-")
    ELSE Literal("-")

\* the indicator tables of an export, one per dimension, a row per indicator of
\* the most recent year: its cell, and with two years the previous year's cell
\* and, in export_to_word (with_change), the change (export_to_word, lines
\* 377-419; export_to_pdf, lines 758-788)
IndicatorTables(report_years, indicators, with_change) ==
    LET current == DictGet(indicators.map, IF report_years = << >> THEN 0 ELSE report_years[1],
                           EmptyDict)
        previous == DictGet(indicators.map, report_years[2], EmptyDict)
    IN  [dimension \in {d \in Dimensions : report_years # << >> /\ d \in DOMAIN current} |->
            [indicator_name \in DOMAIN current[dimension] |->
                LET unit == _get_indicator_unit(indicator_name)
                    value == current[dimension][indicator_name]
                    prev_value == Get(DictGet(previous, dimension, EmptyDict), indicator_name)
                IN  <<ValueCell(value, unit)>> \o
                    (IF Len(report_years) >= 2
                     THEN <<ValueCell(prev_value, unit)>> \o
                          (IF with_change THEN <<ChangeCell(value, prev_value)>> ELSE << >>)
                     ELSE << >>)]]

\* the tables of an export of the report (report_generator.py, lines 107-120)
ExportedTables(data, with_change) ==
    CHOOSE tables \in
        {IndicatorTables(TwoMostRecent(data.order), all_indicators, with_change) :
            all_indicators \in {calculate_all_indicators(IndicatorCalculator(data)).value}} :
        TRUE

\* the values handed to the two formatting functions: missing, zero, numbers
\* below and from 10000 on, of either sign, and an infinite ratio
DisplayedValues ==
    {None, Float(0, 1), Float(1, 3), Float(-1, 8), Float(LargeNumber, 1),
     Float(-LargeNumber, 1), Float(LargeNumber * 100 - 1, 100), PosInf}

InitRendering ==
    /\ financial_data \in MultiYearData
    /\ years = SortedDesc(financial_data.order)
    /\ fp_up \in BOOLEAN
    /\ last_call = Idle
    /\ ret = Return(None)
    /\ calls = << >>
    /\ heap = << >>
    /\ NotServing

FormatIndicatorValue(value, unit) ==
    Call("format_indicator_value", 0, <<value, unit>>,
         Return(format_indicator_value(value, unit)))

FormatNumber(value) ==
    Call("format_number", 0, <<value>>, Return(format_number(value)))

ExportToWord ==
    Call("export_to_word", 0, << >>, Return(ExportedTables(financial_data, TRUE)))

ExportToPdf ==
    Call("export_to_pdf", 0, << >>, Return(ExportedTables(financial_data, FALSE)))

NextRendering ==
    \/ \E value \in DisplayedValues, unit \in {"", "%"} : FormatIndicatorValue(value, unit)
    \/ \E value \in DisplayedValues : FormatNumber(value)
    \/ ExportToWord
    \/ ExportToPdf
    \/ TakeResult

SpecRendering == InitRendering /\ [][NextRendering]_vars

(***************************************************************************)
(* Accounts and sessions (app.py).  A text the code measures (a password)  *)
(* is the sequence of its characters; a request's JSON body is a function  *)
(* of the keys it has.  An answer holds the HTTP status, the target of a   *)
(* redirection and the error text ("" when the request succeeded); the     *)
(* error texts are given in English.  A handler yields its answer, the     *)
(* users_db it leaves, the session it leaves in the browser and whether it *)
(* appended to operation_logs.                                             *)
(***************************************************************************)
Browsers == {"b1", "b2"}
MaxLogs == 4

Answer(status, location, error) ==
    [status |-> status, location |-> location, error |-> error]
Json(error) == Answer(200, "", error)
Page(error) == Answer(200, "", error)
Redirect(location) == Answer(302, location, "")
Succeeds(answer) == answer.error = "" /\ answer.location # "login"

Handled(answer, db, cookie, logged) ==
    [session |-> cookie, users_db |-> db, answer |-> answer, logged |-> logged]

generate_password_hash(password) == <<"pbkdf2", password>>
check_password_hash(pwhash, password) == pwhash = generate_password_hash(password)

Admin123 == <<"a", "d", "m", "i", "n", "1", "2", "3">>
User123 == <<"u", "s", "e", "r", "1", "2", "3">>
Analyst123 == <<"a", "n", "a", "l", "y", "s", "t", "1", "2", "3">>
Secret == <<"s", "e", "c", "r", "e", "t">>
Short == <<"a", "b", "c">>

Account(username, password, email, fullname, role) ==
    [status |-> "active", password |-> generate_password_hash(password),
     username |-> username, email |-> email, fullname |-> fullname, role |-> role]

\* the default users_db (lines 83-110), which load_users saves when there is
\* no users.json (lines 114-126)
DefaultUsers ==
    [u \in {"admin", "user", "analyst"} |->
        CASE u = "admin" -> Account(u, Admin123, "admin@aifi.com", "Administrator", "admin")
          [] u = "user" -> Account(u, User123, "user@aifi.com", "User", "user")
          [] u = "analyst" -> Account(u, Analyst123, "analyst@aifi.com", "Analyst", "user")]

AdminCount(db) == Cardinality({u \in DOMAIN db : db[u].role = "admin"})
Remove(db, key) == [k \in DOMAIN db \ {key} |-> db[k]]
Put(db, key, value) == [k \in DOMAIN db \cup {key} |-> IF k = key THEN value ELSE db[k]]
Has(data, key) == key \in DOMAIN data
NotBlank(data, key) ==
    Has(data, key) /\ data[key] # (IF key = "password" THEN << >> ELSE "")

\* login, POST (lines 173-206)
login(db, cookie, username, password) ==
    IF username \notin DOMAIN db THEN Handled(Page("no such user"), db, cookie, FALSE)
    ELSE IF db[username].status = "inactive"
    THEN Handled(Page("account disabled"), db, cookie, FALSE)
    ELSE IF ~check_password_hash(db[username].password, password)
    THEN Handled(Page("wrong password"), db, cookie, FALSE)
    ELSE Handled(Redirect("index"), db,
                 [username |-> username, role |-> db[username].role], TRUE)

\* logout (lines 275-290)
logout(db, cookie) == Handled(Redirect("login"), db, << >>, TRUE)

\* login_required and admin_required (lines 141-161) around a handler
admin_required(db, cookie, handled) ==
    IF ~Has(cookie, "username") THEN Handled(Redirect("login"), db, cookie, FALSE)
    ELSE IF cookie.role # "admin"
    THEN Handled(Answer(403, "", "administrator required"), db, cookie, FALSE)
    ELSE handled

\* add_user (lines 616-663)
add_user(db, cookie, data) ==
    IF \E k \in {"username", "password", "email", "fullname"} : ~NotBlank(data, k)
    THEN Handled(Json("fill in every field"), db, cookie, FALSE)
    ELSE IF data.username \in DOMAIN db
    THEN Handled(Json("username exists"), db, cookie, FALSE)
    ELSE IF \E u \in DOMAIN db : db[u].email = data.email
    THEN Handled(Json("e-mail registered"), db, cookie, FALSE)
    ELSE IF Len(data.password) < 6
    THEN Handled(Json("password too short"), db, cookie, FALSE)
    ELSE Handled(Json(""),
                 Put(db, data.username,
                     Account(data.username, data.password, data.email, data.fullname,
                             IF Has(data, "role") THEN data.role ELSE "user")),
                 cookie, TRUE)

\* edit_user (lines 669-711): the assignments are made on the account of
\* users_db itself (user = users_db[username], line 675)
edit_user(db, cookie, username, data) ==
    IF username \notin DOMAIN db THEN Handled(Json("no such user"), db, cookie, FALSE)
    ELSE
    LET user == db[username]
        new_email == Has(data, "email") /\ data.email # user.email
        with_email == IF new_email THEN [user EXCEPT !.email = data.email] ELSE user
        with_fullname == IF Has(data, "fullname")
                         THEN [with_email EXCEPT !.fullname = data.fullname]
                         ELSE with_email
        with_role == IF Has(data, "role") THEN [with_fullname EXCEPT !.role = data.role]
                     ELSE with_fullname
        with_status == IF Has(data, "status")
                       THEN [with_role EXCEPT !.status = data.status]
                       ELSE with_role
        new_password == Has(data, "password") /\ data.password # << >>
    IN  IF new_email /\ \E u \in DOMAIN db :
                            db[u].email = data.email /\ db[u].username # username
        THEN Handled(Json("e-mail in use"), db, cookie, FALSE)
        ELSE IF new_password /\ Len(data.password) < 6
        THEN Handled(Json("password too short"), Put(db, username, with_status),
                     cookie, FALSE)
        ELSE Handled(Json(""),
                     Put(db, username,
                         IF new_password
                         THEN [with_status EXCEPT
                                  !.password = generate_password_hash(data.password)]
                         ELSE with_status),
                     cookie, TRUE)

\* delete_user (lines 717-745)
delete_user(db, cookie, username) ==
    IF username \notin DOMAIN db THEN Handled(Json("no such user"), db, cookie, FALSE)
    ELSE IF username = cookie.username
    THEN Handled(Json("cannot delete yourself"), db, cookie, FALSE)
    ELSE IF db[username].role = "admin" /\ AdminCount(db) <= 1
    THEN Handled(Json("cannot delete the last administrator"), db, cookie, FALSE)
    ELSE Handled(Json(""), Remove(db, username), cookie, TRUE)

\* change_user_role (lines 751-788)
change_user_role(db, cookie, username, data) ==
    IF username \notin DOMAIN db THEN Handled(Json("no such user"), db, cookie, FALSE)
    ELSE IF ~Has(data, "role") \/ data.role \notin {"admin", "user"}
    THEN Handled(Json("invalid role"), db, cookie, FALSE)
    ELSE IF username = cookie.username
    THEN Handled(Json("cannot change your own role"), db, cookie, FALSE)
    ELSE IF db[username].role = "admin" /\ data.role = "user" /\ AdminCount(db) <= 1
    THEN Handled(Json("cannot demote the last administrator"), db, cookie, FALSE)
    ELSE Handled(Json(""), Put(db, username, [db[username] EXCEPT !.role = data.role]),
                 cookie, TRUE)

\* toggle_user_status (lines 794-819)
toggle_user_status(db, cookie, username) ==
    IF username \notin DOMAIN db THEN Handled(Json("no such user"), db, cookie, FALSE)
    ELSE IF username = cookie.username
    THEN Handled(Json("cannot disable yourself"), db, cookie, FALSE)
    ELSE Handled(Json(""),
                 Put(db, username,
                     [db[username] EXCEPT
                         !.status = IF @ = "active" THEN "inactive" ELSE "active"]),
                 cookie, TRUE)

\* the requests the browsers send
Usernames == {"admin", "user", "analyst", "guest"}
Passwords == {Admin123, User123, Secret}
NewUsers ==
    {[password |-> p, username |-> "guest", email |-> e, fullname |-> "Guest", role |-> r] :
        p \in {Secret, Short}, e \in {"guest@aifi.com", "admin@aifi.com"},
        r \in {"user", "admin"}}
    \cup {[password |-> Secret, username |-> "guest", email |-> "guest@aifi.com",
           fullname |-> ""]}
Edits ==
    {[role |-> "user"], [role |-> "admin"], [status |-> "inactive"],
     [email |-> "user@aifi.com"], [password |-> Secret],
     [password |-> Short, email |-> "new@aifi.com", fullname |-> "Renamed"]}
Roles == {[role |-> "admin"], [role |-> "user"], [role |-> "root"]}

\* app.py as imported: load_users() has run on the default users_db, no
\* browser holds a session
InitUsers ==
    /\ financial_data = EmptyDict
    /\ years = << >>
    /\ fp_up = FALSE
    /\ last_call = Idle
    /\ ret = Return(None)
    /\ calls = << >>
    /\ heap = << >>
    /\ users_db = DefaultUsers
    /\ session = [b \in Browsers |-> << >>]
    /\ report_storage = << >>
    /\ reports_file = << >>
    /\ operation_logs = 0
    /\ now = 0

\* one request of a browser, served to its end
Serve(op, browser, args, handled) ==
    /\ last_call = Idle
    /\ operation_logs + (IF handled.logged THEN 1 ELSE 0) <= MaxLogs
    /\ last_call' = [op |-> op, year |-> 0, args |-> <<browser>> \o args]
    /\ ret' = Return(handled.answer)
    /\ users_db' = handled.users_db
    /\ session' = [session EXCEPT ![browser] = handled.session]
    /\ operation_logs' = operation_logs + (IF handled.logged THEN 1 ELSE 0)
    /\ UNCHANGED <<financial_data, years, fp_up, calls, heap, report_storage, reports_file,
                   now>>

Login(b, username, password) ==
    Serve("login", b, <<username, password>>,
          login(users_db, session[b], username, password))

Logout(b) == Serve("logout", b, << >>, logout(users_db, session[b]))

AddUser(b, data) ==
    Serve("add_user", b, <<data>>,
          admin_required(users_db, session[b], add_user(users_db, session[b], data)))

EditUser(b, username, data) ==
    Serve("edit_user", b, <<username, data>>,
          admin_required(users_db, session[b],
                         edit_user(users_db, session[b], username, data)))

DeleteUser(b, username) ==
    Serve("delete_user", b, <<username>>,
          admin_required(users_db, session[b],
                         delete_user(users_db, session[b], username)))

ChangeUserRole(b, username, data) ==
    Serve("change_user_role", b, <<username, data>>,
          admin_required(users_db, session[b],
                         change_user_role(users_db, session[b], username, data)))

ToggleUserStatus(b, username) ==
    Serve("toggle_user_status", b, <<username>>,
          admin_required(users_db, session[b],
                         toggle_user_status(users_db, session[b], username)))

\* the browser has read the answer
TakeAnswer ==
    /\ last_call # Idle
    /\ last_call' = Idle
    /\ ret' = Return(None)
    /\ UNCHANGED <<financial_data, years, fp_up, calls, heap, server>>

NextUsers ==
    \/ \E b \in Browsers, u \in Usernames, p \in Passwords : Login(b, u, p)
    \/ \E b \in Browsers : Logout(b)
    \/ \E b \in Browsers, data \in NewUsers : AddUser(b, data)
    \/ \E b \in Browsers, u \in Usernames, data \in Edits : EditUser(b, u, data)
    \/ \E b \in Browsers, u \in Usernames : DeleteUser(b, u)
    \/ \E b \in Browsers, u \in Usernames, data \in Roles : ChangeUserRole(b, u, data)
    \/ \E b \in Browsers, u \in Usernames : ToggleUserStatus(b, u)
    \/ TakeAnswer

SpecUsers == InitUsers /\ [][NextUsers]_vars

(***************************************************************************)
(* Stored reports (app.py).  A report is held by its report_id, its        *)
(* created_by and its filename.  A generation takes its report_id from the *)
(* clock when the request arrives and stores the report when the analysis  *)
(* is done; requests of other browsers are served in between (`calls`      *)
(* holds the generations under way).  What the file system, the database   *)
(* and the language model do to a request is an input of the request.      *)
(***************************************************************************)
MaxNow == 2

Report(report_id, created_by, filename) ==
    [report_id |-> report_id, created_by |-> created_by, filename |-> filename]

Stored(answer, storage, logged) ==
    [report_storage |-> storage, answer |-> answer, logged |-> logged]

\* the year-keyed dicts of a report (indicators, financial_data) are held
\* with the type of their keys: int as generate_report builds them.  json.dump
\* writes an int key as its decimal text, and json.load reads the keys of an
\* object as str (lines 48, 74); the values (floats, None) are read back as
\* written.  A lookup with an int key reaches the int keys only.
IntKeyed(d) == [keys |-> "int", dict |-> d]
json_dump_keys(keyed) == [keys |-> "str", dict |-> keyed.dict]
ByInt(keyed) == IF keyed.keys = "int" THEN keyed.dict ELSE [order |-> << >>, map |-> << >>]

\* save_reports (lines 55-80): what json.dump writes for report_storage
save_reports(storage) ==
    [id \in DOMAIN storage |->
        IF Has(storage[id], "indicators")
        THEN [storage[id] EXCEPT !.indicators = json_dump_keys(@),
                                 !.financial_data = json_dump_keys(@)]
        ELSE storage[id]]

\* load_reports (lines 42-52): what json.load reads from the file
load_reports(file) == file

NotFound == "report not found"
Forbidden == "no permission for this report"

\* view_report (lines 367-378)
view_report(storage, cookie, report_id) ==
    IF report_id \notin DOMAIN storage THEN Stored(Answer(404, "", NotFound), storage, FALSE)
    ELSE IF cookie.role # "admin" /\ storage[report_id].created_by # cookie.username
    THEN Stored(Answer(403, "", Forbidden), storage, FALSE)
    ELSE Stored(Page(""), storage, FALSE)

\* get_report_data (lines 383-397)
get_report_data(storage, cookie, report_id) ==
    IF report_id \notin DOMAIN storage THEN Stored(Json(NotFound), storage, FALSE)
    ELSE IF cookie.role # "admin" /\ storage[report_id].created_by # cookie.username
    THEN Stored(Json(Forbidden), storage, FALSE)
    ELSE Stored(Json(""), storage, FALSE)

\* export_report (lines 402-470); exported tells whether the exporter wrote
\* the file
export_report(storage, cookie, report_id, format, exported) ==
    IF report_id \notin DOMAIN storage THEN Stored(Answer(404, "", NotFound), storage, FALSE)
    ELSE IF cookie.role # "admin" /\ storage[report_id].created_by # cookie.username
    THEN Stored(Answer(403, "", Forbidden), storage, FALSE)
    ELSE IF format \notin {"word", "pdf", "pdf_html"}
    THEN Stored(Answer(400, "", "unsupported format"), storage, FALSE)
    ELSE IF ~exported THEN Stored(Answer(500, "", "export failed"), storage, FALSE)
    ELSE Stored(Page(""), storage, TRUE)

\* delete_report (lines 545-576)
delete_report(storage, cookie, report_id) ==
    IF report_id \notin DOMAIN storage THEN Stored(Json(NotFound), storage, FALSE)
    ELSE IF cookie.role # "admin" /\ storage[report_id].created_by # cookie.username
    THEN Stored(Json(Forbidden), storage, FALSE)
    ELSE Stored(Json(""), Remove(storage, report_id), TRUE)

\* ai_chat (lines 1408-1466); answered tells whether the language model
\* answered
ai_chat(storage, cookie, report_id, question, answered) ==
    IF report_id = 0 \/ question = "" THEN Stored(Json("missing parameter"), storage, FALSE)
    ELSE IF report_id \notin DOMAIN storage THEN Stored(Json(NotFound), storage, FALSE)
    ELSE IF cookie.role # "admin" /\ storage[report_id].created_by # cookie.username
    THEN Stored(Json(Forbidden), storage, FALSE)
    ELSE IF ~answered THEN Stored(Json("processing failed"), storage, FALSE)
    ELSE Stored(Json(""), storage, TRUE)

\* upload_file, from the report_id on (lines 322-359): generated tells
\* whether generate_report returned a report
store_uploaded_report(storage, cookie, report_id, filename, generated) ==
    IF ~generated THEN Stored(Json("processing failed"), storage, FALSE)
    ELSE Stored(Json(""),
                Put(storage, report_id, Report(report_id, cookie.username, filename)),
                TRUE)

\* generate_mysql_report, from the report_id on (lines 1093-1213): found
\* tells whether the database has the taxpayer
store_mysql_report(storage, cookie, report_id, taxpayer_id, found) ==
    IF ~found THEN Stored(Json("no data for this taxpayer"), storage, FALSE)
    ELSE Stored(Json(""),
                Put(storage, report_id, Report(report_id, cookie.username, taxpayer_id)),
                TRUE)

\* login_required (lines 141-149) around a handler of reports
login_required(storage, cookie, stored) ==
    IF ~Has(cookie, "username") THEN Stored(Redirect("login"), storage, FALSE)
    ELSE stored

ReportIds == 0 .. MaxNow + 1
Files == {"", "statements.xlsx", "statements.txt"}

\* app.py as imported, with no stored report; the clock reads 1
InitReports ==
    /\ financial_data = EmptyDict
    /\ years = << >>
    /\ fp_up = FALSE
    /\ last_call = Idle
    /\ ret = Return(None)
    /\ calls = << >>
    /\ heap = << >>
    /\ users_db = DefaultUsers
    /\ session = [b \in Browsers |-> << >>]
    /\ report_storage = << >>
    /\ reports_file = << >>
    /\ operation_logs = 0
    /\ now = 1

\* one request on the stored reports, served to its end; the handlers that
\* change report_storage call save_reports (lines 341, 564, 1189)
ServeReport(op, browser, args, stored) ==
    /\ last_call = Idle
    /\ operation_logs + (IF stored.logged THEN 1 ELSE 0) <= MaxLogs
    /\ last_call' = [op |-> op, year |-> 0, args |-> <<browser>> \o args]
    /\ ret' = Return(stored.answer)
    /\ report_storage' = stored.report_storage
    /\ reports_file' = IF stored.report_storage # report_storage
                       THEN save_reports(stored.report_storage)
                       ELSE reports_file
    /\ operation_logs' = operation_logs + (IF stored.logged THEN 1 ELSE 0)
    /\ calls' = Remove(calls, browser)
    /\ UNCHANGED <<financial_data, years, fp_up, heap, users_db, session, now>>

ViewReport(b, report_id) ==
    /\ b \notin DOMAIN calls
    /\ ServeReport("view_report", b, <<report_id>>,
                   login_required(report_storage, session[b],
                                  view_report(report_storage, session[b], report_id)))

GetReportData(b, report_id) ==
    /\ b \notin DOMAIN calls
    /\ ServeReport("get_report_data", b, <<report_id>>,
                   login_required(report_storage, session[b],
                                  get_report_data(report_storage, session[b], report_id)))

ExportReport(b, report_id, format, exported) ==
    /\ b \notin DOMAIN calls
    /\ ServeReport("export_report", b, <<report_id, format>>,
                   login_required(report_storage, session[b],
                                  export_report(report_storage, session[b], report_id,
                                                format, exported)))

DeleteReport(b, report_id) ==
    /\ b \notin DOMAIN calls
    /\ ServeReport("delete_report", b, <<report_id>>,
                   login_required(report_storage, session[b],
                                  delete_report(report_storage, session[b], report_id)))

AiChat(b, report_id, question, answered) ==
    /\ b \notin DOMAIN calls
    /\ ServeReport("ai_chat", b, <<report_id, question>>,
                   login_required(report_storage, session[b],
                                  ai_chat(report_storage, session[b], report_id,
                                          question, answered)))

\* a generation request arrives: login_required, the tests of the file
\* (upload_file, lines 305-313) and the report_id (lines 318-323, 1092)
BeginGeneration(op, b, name) ==
    /\ b \notin DOMAIN calls
    /\ IF ~Has(session[b], "username")
       THEN ServeReport(op, b, <<name>>, Stored(Redirect("login"), report_storage, FALSE))
       ELSE IF op = "upload_file" /\ name # "statements.xlsx"
       THEN ServeReport(op, b, <<name>>,
                        Stored(Json(IF name = "" THEN "no file" ELSE "unsupported file"),
                               report_storage, FALSE))
       ELSE /\ calls' = Put(calls, b, [session |-> session[b], op |-> op,
                                        report_id |-> now, name |-> name])
            /\ UNCHANGED <<financial_data, years, fp_up, last_call, ret, heap, server>>

UploadFile(b, file) == BeginGeneration("upload_file", b, file)

GenerateMysqlReport(b, taxpayer_id) == BeginGeneration("generate_mysql_report", b, taxpayer_id)

\* the analysis of a generation is done: the report is stored and the
\* request answered
EndGeneration(b, done) ==
    /\ b \in DOMAIN calls
    /\ ServeReport(calls[b].op, b, <<calls[b].name>>,
                   IF calls[b].op = "upload_file"
                   THEN store_uploaded_report(report_storage, calls[b].session,
                                              calls[b].report_id, calls[b].name, done)
                   ELSE store_mysql_report(report_storage, calls[b].session,
                                           calls[b].report_id, calls[b].name, done))

\* a second passes
Tick ==
    /\ now < MaxNow
    /\ now' = now + 1
    /\ UNCHANGED <<financial_data, years, fp_up, last_call, ret, calls, heap,
                   users_db, session, report_storage, reports_file, operation_logs>>

NextReports ==
    \/ \E b \in Browsers, u \in {"admin", "user", "analyst"} :
          Login(b, u, DefaultUsers[u].password[2])
    \/ \E b \in Browsers, u \in {"admin"}, data \in {[role |-> "user"]} : EditUser(b, u, data)
    \/ \E b \in Browsers, id \in ReportIds : ViewReport(b, id)
    \/ \E b \in Browsers, id \in ReportIds : GetReportData(b, id)
    \/ \E b \in Browsers, id \in ReportIds, format \in {"word", "excel"},
          exported \in BOOLEAN : ExportReport(b, id, format, exported)
    \/ \E b \in Browsers, id \in ReportIds : DeleteReport(b, id)
    \/ \E b \in Browsers, id \in ReportIds, question \in {"", "why"},
          answered \in BOOLEAN : AiChat(b, id, question, answered)
    \/ \E b \in Browsers, file \in Files : UploadFile(b, file)
    \/ \E b \in Browsers : GenerateMysqlReport(b, "91310000")
    \/ \E b \in Browsers, done \in BOOLEAN : EndGeneration(b, done)
    \/ Tick
    \/ TakeAnswer

SpecReports == InitReports /\ [][NextReports]_vars

(***************************************************************************)
(* Reports across a restart (app.py, report_generator.py).  A report is    *)
(* generated from the uploaded statements and stored, save_reports writes  *)
(* the file, and load_reports reads it when the application starts again.  *)
(* The stored reports are then exported and put into the chat context.     *)
(***************************************************************************)

\* ReportGenerator.generate_report (report_generator.py, lines 38-120): the
\* years, the statements and the indicators of the report
generate_report(data) ==
    CHOOSE report \in
        {[financial_data |-> IntKeyed(data), years |-> TwoMostRecent(data.order),
          indicators |-> IntKeyed(all_indicators)] :
            all_indicators \in {calculate_all_indicators(IndicatorCalculator(data)).value}} :
        TRUE

\* report_data['indicators'].get(year) (export_generator.py, lines 377-378, 399;
\* ai_analyzer.py, lines 738-742)
IndicatorsOfYear(report, year) == Get(ByInt(report.indicators).map, year)

\* report_data['financial_data'].get(year)
StatementsOfYear(report, year) == Get(ByInt(report.financial_data).map, year)

InitPersistence ==
    /\ financial_data \in MultiYearData
    /\ years = SortedDesc(financial_data.order)
    /\ fp_up \in BOOLEAN
    /\ last_call = Idle
    /\ ret = Return(None)
    /\ calls = << >>
    /\ heap = << >>
    /\ users_db = DefaultUsers
    /\ session = [b \in Browsers |-> << >>]
    /\ report_storage = << >>
    /\ reports_file = << >>
    /\ operation_logs = 0
    /\ now = 1

\* upload_file on the statements (lines 325-341)
StoreReport ==
    /\ last_call = Idle
    /\ now \notin DOMAIN report_storage
    /\ last_call' = [op |-> "upload_file", year |-> 0, args |-> << >>]
    /\ ret' = Return(Json(""))
    /\ report_storage' = Put(report_storage, now, generate_report(financial_data))
    /\ reports_file' = save_reports(report_storage')
    /\ operation_logs' = operation_logs + 1
    /\ UNCHANGED <<financial_data, years, fp_up, calls, heap, users_db, session, now>>

\* the application starts again: the module globals are set anew and
\* load_reports runs (lines 32-35, 1484-1487)
LoadReports ==
    /\ last_call = Idle
    /\ last_call' = [op |-> "load_reports", year |-> 0, args |-> << >>]
    /\ ret' = Return(None)
    /\ report_storage' = load_reports(reports_file)
    /\ operation_logs' = 0
    /\ session' = [b \in Browsers |-> << >>]
    /\ UNCHANGED <<financial_data, years, fp_up, calls, heap, users_db, reports_file, now>>

\* export_report with format word on a stored report (lines 418-424): the
\* indicator tables of ExportGenerator.export_to_word
ExportStoredReport(report_id) ==
    /\ report_id \in DOMAIN report_storage
    /\ Call("export_report", 0, <<report_id>>,
            Return(IndicatorTables(report_storage[report_id].years,
                                   ByInt(report_storage[report_id].indicators), TRUE)))

\* AIAnalyzer._build_report_context on a stored report (ai_analyzer.py, lines
\* 736-752): the indicators of the current year it lists
BuildReportContext(report_id) ==
    /\ report_id \in DOMAIN report_storage
    /\ Call("_build_report_context", 0, <<report_id>>,
            Return(IF report_storage[report_id].years = << >> THEN EmptyDict
                   ELSE DictGet(ByInt(report_storage[report_id].indicators).map,
                                report_storage[report_id].years[1], EmptyDict)))

NextPersistence ==
    \/ StoreReport
    \/ LoadReports
    \/ \E id \in ReportIds : ExportStoredReport(id)
    \/ \E id \in ReportIds : BuildReportContext(id)
    \/ TakeResult

SpecPersistence == InitPersistence /\ [][NextPersistence]_vars

(***************************************************************************)
(* The rule-based narration (AIAnalyzer, ai_analyzer.py) that is used when *)
(* no API key is configured or the language model fails.  An analysis is   *)
(* held by its risk level, its points and whether it notes missing data;   *)
(* the levels are "high risk" ('高风险'), "medium risk" ('中等风险'),      *)
(* "low risk" ('低风险') and "cannot be judged" ('无法判断').  The overall *)
(* assessment is held by its rating and the lines of its key data.         *)
(***************************************************************************)

\* a < b on floats
Less(a, b) == FSign(FSub(a, b)) < 0

\* _get_default_analysis (lines 311-400)
_get_default_analysis(dimension_name, indicators) ==
    LET valid_count == Cardinality({i \in DOMAIN indicators : ~IsNone(indicators[i])})
        total_count == Cardinality(DOMAIN indicators)
        Rated(risk_level, analysis_points) ==
            [risk_level |-> risk_level, analysis_points |-> analysis_points,
             partial |-> valid_count < total_count]
        Unrated == Rated("medium risk", << >>)
        net_margin == Get(indicators, "net_profit_margin")
        asset_liability == Get(indicators, "debt_to_asset_ratio")
        total_turnover == Get(indicators, "total_asset_turnover")
        cash_profit == Get(indicators, "cash_to_profit_ratio")
        operating_cf == Get(indicators, "operating_cash_flow")
    IN  IF valid_count = 0 THEN Rated("cannot be judged", << >>)
        ELSE CASE dimension_name = "Profitability" ->
                    IF IsNone(net_margin) THEN Unrated
                    ELSE IF Less(net_margin, Float(0, 1))
                    THEN Rated("high risk", <<"the company makes a loss">>)
                    ELSE IF Less(net_margin, Float(5, 1))
                    THEN Rated("medium risk", <<"the net profit margin is low">>)
                    ELSE Rated("low risk", <<"the profitability is good">>)
               [] dimension_name = "Solvency" ->
                    IF IsNone(asset_liability) THEN Unrated
                    ELSE IF Less(Float(70, 1), asset_liability)
                    THEN Rated("high risk", <<"the debt ratio is high">>)
                    ELSE IF Less(Float(50, 1), asset_liability)
                    THEN Rated("medium risk", <<"the debt level is moderate">>)
                    ELSE Rated("low risk", <<"the debt level is healthy">>)
               [] dimension_name = "Operations" ->
                    IF IsNone(total_turnover) THEN Unrated
                    ELSE IF Less(total_turnover, Float(1, 2))
                    THEN Rated("medium risk", <<"the asset turnover should improve">>)
                    ELSE Rated("low risk", <<"the asset turnover is good">>)
               [] dimension_name = "CashFlow" ->
                    IF ~IsNone(operating_cf) /\ Less(operating_cf, Float(0, 1))
                    THEN Rated("high risk", <<"the operating cash flow is negative">>)
                    ELSE IF ~IsNone(cash_profit) /\ Less(cash_profit, Float(4, 5))
                    THEN Rated("medium risk", <<"the cash recovery should improve">>)
                    ELSE Rated("low risk", <<"the cash flow is sound">>)
               [] OTHER -> Unrated

\* max(all_indicators.keys()) on keys that are dimension names (line 593): the
\* names '偿债风险', '现金流风险', '盈利风险', '运营风险' are in this order
NameRank(name) ==
    CASE name = "Solvency" -> 1
      [] name = "CashFlow" -> 2
      [] name = "Profitability" -> 3
      [] name = "Operations" -> 4

\* the key data of the overall assessment: dimension, indicator, unit and
\* whether the digits are grouped (lines 597-615)
KeyData ==
    <<<<"Profitability", "net_profit_margin", "%", FALSE>>,
      <<"Solvency", "debt_to_asset_ratio", "%", FALSE>>,
      <<"Operations", "total_asset_turnover", "", FALSE>>,
      <<"CashFlow", "operating_cash_flow", "10k yuan", TRUE>>>>

RECURSIVE KeyDataLines(_, _)
KeyDataLines(indicators_by_dim, k) ==
    IF k > Len(KeyData) THEN << >>
    ELSE (IF KeyData[k][1] \in DOMAIN indicators_by_dim
          THEN LET value == Get(indicators_by_dim[KeyData[k][1]], KeyData[k][2])
               IN  IF IsNone(value) THEN << >>
                   ELSE <<[indicator |-> KeyData[k][2],
                           text |-> FixedText(value, KeyData[k][4], KeyData[k][3])]>>
          ELSE << >>)
         \o KeyDataLines(indicators_by_dim, k + 1)

\* _get_default_overall_assessment (lines 557-640): an analysis counts as
\* high or low risk when its text has the words
_get_default_overall_assessment(dimension_analyses, all_indicators) ==
    LET Count(risk_level) ==
            Cardinality({d \in DOMAIN dimension_analyses :
                            dimension_analyses[d].risk_level = risk_level})
        latest_year == CHOOSE k \in DOMAIN all_indicators :
                          \A j \in DOMAIN all_indicators : NameRank(j) <= NameRank(k)
    IN  [overall_level |-> IF Count("high risk") >= 2 THEN "high"
                           ELSE IF Count("low risk") >= 3 THEN "good"
                           ELSE "stable",
         key_data |-> IF all_indicators = EmptyDict THEN << >>
                      ELSE KeyDataLines(all_indicators[latest_year], 1)]

\* generate_report with the rule-based narration (report_generator.py, lines
\* 58-81; the same in generate_mysql_report, app.py lines 1138-1158): the
\* analysis of each dimension and the overall assessment
Narration(data) ==
    CHOOSE narration \in
        {LET report_years == TwoMostRecent(data.order)
             current == IF report_years = << >> THEN EmptyDict
                        ELSE DictGet(all_indicators.map, report_years[1], EmptyDict)
             dimension_analyses ==
                 [dimension \in Dimensions |->
                     _get_default_analysis(dimension, DictGet(current, dimension, EmptyDict))]
         IN  [dimension_analyses |-> dimension_analyses,
              overall_assessment |->
                  _get_default_overall_assessment(dimension_analyses, current)] :
            all_indicators \in {calculate_all_indicators(IndicatorCalculator(data)).value}} :
        TRUE

InitFallback ==
    /\ financial_data \in FinancialData
    /\ years = SortedDesc(financial_data.order)
    /\ fp_up \in BOOLEAN
    /\ last_call = Idle
    /\ ret = Return(None)
    /\ calls = << >>
    /\ heap = << >>
    /\ NotServing

AnalyzeDimensionRisk(dimension) ==
    Call("_get_default_analysis", 0, <<dimension>>,
         Return(Narration(financial_data).dimension_analyses[dimension]))

GenerateOverallRiskAssessment ==
    Call("_get_default_overall_assessment", 0, << >>,
         Return(Narration(financial_data).overall_assessment))

NextFallback ==
    \/ \E dimension \in Dimensions : AnalyzeDimensionRisk(dimension)
    \/ GenerateOverallRiskAssessment
    \/ TakeResult

SpecFallback == InitFallback /\ [][NextFallback]_vars

(***************************************************************************)
(* Properties.  They are stated on the inputs as the caller holds them     *)
(* (financial_data) and on the outcome of the last call (ret).             *)
(***************************************************************************)
PerYearCalls ==
    {"calculate_profitability_indicators", "calculate_solvency_indicators",
     "calculate_operation_indicators", "calculate_cashflow_indicators"}

HasYear(y) == y \in DOMAIN financial_data.map

StatementOf(f) == CHOOSE s \in Statements : f \in FieldsOf(s)

\* the value the input data hold for field f of year y: missing when the year,
\* the statement or the key is absent
Input(y, f) ==
    IF /\ HasYear(y)
       /\ StatementOf(f) \in DOMAIN financial_data.map[y]
       /\ f \in DOMAIN financial_data.map[y][StatementOf(f)]
    THEN financial_data.map[y][StatementOf(f)][f]
    ELSE None

Known(y, f) == ~IsNone(Input(y, f))
NonZero(y, f) == Known(y, f) /\ ~IsZero(Input(y, f))

\* the indicators of year y that the last call returned, by name
Shown(y) ==
    IF ~IsReturn(ret) THEN EmptyDict
    ELSE IF last_call.op = "calculate_all_indicators"
    THEN IF y \in DOMAIN ret.value.map
         THEN ret.value.map[y].Profitability @@ ret.value.map[y].Solvency
              @@ ret.value.map[y].Operations @@ ret.value.map[y].CashFlow
         ELSE EmptyDict
    ELSE IF last_call.op \in PerYearCalls /\ last_call.year = y THEN ret.value
    ELSE EmptyDict

Shows(y, i) == i \in DOMAIN Shown(y)

\* numerator / denominator * scale in double arithmetic, to 2 decimals
Scaled(numerator, denominator, scale) ==
    Round2(FMul(FDiv(numerator, denominator), scale),
           IsExact(numerator) /\ IsExact(denominator))

Hundred == Float(100, 1)
One == Float(1, 1)

RatioIndicators ==
    {"net_profit_margin", "gross_profit_margin", "return_on_equity",
     "debt_to_asset_ratio", "current_ratio", "quick_ratio", "receivables_turnover",
     "inventory_turnover", "total_asset_turnover", "cash_to_profit_ratio"}

\* the source fields the formula of a ratio indicator reads
Reads(i) ==
    CASE i = "net_profit_margin" -> {"net_profit", "operating_revenue"}
      [] i = "gross_profit_margin" -> {"operating_revenue", "operating_costs"}
      [] i = "return_on_equity" -> {"net_profit", "owners_equity"}
      [] i = "debt_to_asset_ratio" -> {"total_liabilities", "total_assets"}
      [] i = "current_ratio" -> {"current_assets", "current_liabilities"}
      [] i = "quick_ratio" -> {"current_assets", "current_liabilities"}
      [] i = "receivables_turnover" -> {"operating_revenue", "current_assets"}
      [] i = "inventory_turnover" -> {"operating_costs", "current_assets"}
      [] i = "total_asset_turnover" -> {"operating_revenue", "total_assets"}
      [] i = "cash_to_profit_ratio" -> {"operating_cash_flow", "net_profit"}

\* C1: for every ratio indicator and every year, if any source field its formula
\* reads is missing, the indicator is missing (it is not computed from a zero put
\* in its place, nor from the operand that is present).
C1_MissingPropagation ==
    \A y \in Years : \A i \in RatioIndicators :
        (Shows(y, i) /\ \E f \in Reads(i) : ~Known(y, f)) => IsNone(Shown(y)[i])

\* gross_profit_margin has been returned missing for a year of the data whose
\* operating_costs are missing and whose operating_revenue is a number other than 0
C1_Witness ==
    \E y \in Years :
        /\ HasYear(y)
        /\ Shows(y, "gross_profit_margin")
        /\ ~Known(y, "operating_costs")
        /\ NonZero(y, "operating_revenue")
        /\ IsNone(Shown(y)["gross_profit_margin"])


\* C2: _safe_divide returns missing exactly when the numerator is missing, the
\* denominator is missing or the denominator equals 0; otherwise it returns the
\* number numerator / denominator * multiply rounded to 2 decimals; it never
\* raises and never returns an infinity.
C2_SafeDivideContract ==
    last_call.op = "_safe_divide" =>
        LET numerator == last_call.args[1]
            denominator == last_call.args[2]
            multiply == last_call.args[3]
        IN  /\ IsReturn(ret)
            /\ IsNone(ret.value)
                 <=> (IsNone(numerator) \/ IsNone(denominator) \/ IsZero(denominator))
            /\ ~IsNone(ret.value) =>
                 /\ IsFinite(ret.value)
                 /\ ret.value = Scaled(numerator, denominator, multiply)

\* _safe_divide has returned an infinity: the largest finite double over 1,
\* times 100
C2_Witness ==
    /\ last_call.op = "_safe_divide"
    /\ last_call.args = <<Huge, One, Hundred>>
    /\ IsReturn(ret)
    /\ IsInf(ret.value)

\* C3: for a year that is not a key of the input data, each of the four per-year
\* calculators returns (it does not raise) its three indicators, all missing, the
\* two pass-through cash-flow values included.
C3_AbsentYearAllMissing ==
    (last_call.op \in PerYearCalls /\ ~HasYear(last_call.year)) =>
        /\ IsReturn(ret)
        /\ DOMAIN ret.value = IndicatorsOf(last_call.op)
        /\ \A i \in DOMAIN ret.value : IsNone(ret.value[i])

\* the cash-flow calculator has returned for a year that the data, which hold
\* another year, do not hold
C3_Witness ==
    /\ last_call.op = "calculate_cashflow_indicators"
    /\ ~HasYear(last_call.year)
    /\ \E y \in Years : HasYear(y)
    /\ IsReturn(ret)
    /\ IsNone(ret.value.operating_cash_flow)
    /\ IsNone(ret.value.net_cash_increase)

\* C4: for every input of the documented shape, in which any statement and any
\* field key may be absent for a year, calculate_all_indicators and each per-year
\* calculator return normally; every value they return is a number or missing.
C4_NoException ==
    /\ IsReturn(ret)
    /\ \A y \in Years : \A i \in DOMAIN Shown(y) :
           IsNone(Shown(y)[i]) \/ IsFloat(Shown(y)[i])

\* calculate_all_indicators has returned for data with a year that has a balance
\* sheet and no income statement
C4_Witness ==
    /\ last_call.op = "calculate_all_indicators"
    /\ IsReturn(ret)
    /\ \E y \in Years :
           /\ HasYear(y)
           /\ "balance_sheet" \in DOMAIN financial_data.map[y]
           /\ "income_statement" \notin DOMAIN financial_data.map[y]
           /\ Shows(y, "net_profit_margin")
           /\ IsNone(Shown(y)["net_profit_margin"])

\* C5: gross_profit_margin is missing whenever operating_revenue or
\* operating_costs is missing, and when both are present and the revenue is not 0
\* it is (operating_revenue - operating_costs) / operating_revenue * 100.
C5_GrossProfitMargin ==
    \A y \in Years :
        Shows(y, "gross_profit_margin") =>
            LET revenue == Input(y, "operating_revenue")
                costs == Input(y, "operating_costs")
                margin == Shown(y)["gross_profit_margin"]
            IN  /\ (IsNone(revenue) \/ IsNone(costs)) => IsNone(margin)
                /\ (~IsNone(revenue) /\ ~IsNone(costs) /\ ~IsZero(revenue)) =>
                       margin = Scaled(FSub(revenue, costs), revenue, Hundred)

\* a revenue of 10,000,000 with costs of 7,000,000 has given the margin 30.0
C5_Witness ==
    \E y \in Years :
        /\ Shows(y, "gross_profit_margin")
        /\ Input(y, "operating_revenue") = Float(10000000, 1)
        /\ Input(y, "operating_costs") = Float(7000000, 1)
        /\ Shown(y)["gross_profit_margin"] = Float(30, 1)

PercentageIndicators ==
    {"net_profit_margin", "gross_profit_margin", "return_on_equity", "debt_to_asset_ratio"}

Scale(i) == IF i \in PercentageIndicators THEN Hundred ELSE One

\* the raw ratio of each ratio indicator: its numerator and its denominator
Numerator(y, i) ==
    CASE i \in {"net_profit_margin", "return_on_equity"} -> Input(y, "net_profit")
      [] i = "gross_profit_margin" ->
            FSub(Input(y, "operating_revenue"), Input(y, "operating_costs"))
      [] i = "debt_to_asset_ratio" -> Input(y, "total_liabilities")
      [] i = "current_ratio" -> Input(y, "current_assets")
      [] i = "quick_ratio" -> FMul(Input(y, "current_assets"), Float(8, 10))
      [] i \in {"receivables_turnover", "total_asset_turnover"} ->
            Input(y, "operating_revenue")
      [] i = "inventory_turnover" -> Input(y, "operating_costs")
      [] i = "cash_to_profit_ratio" -> Input(y, "operating_cash_flow")

Denominator(y, i) ==
    CASE i \in {"net_profit_margin", "gross_profit_margin"} -> Input(y, "operating_revenue")
      [] i = "return_on_equity" -> Input(y, "owners_equity")
      [] i \in {"debt_to_asset_ratio", "total_asset_turnover"} -> Input(y, "total_assets")
      [] i \in {"current_ratio", "quick_ratio"} -> Input(y, "current_liabilities")
      [] i = "receivables_turnover" -> FMul(Input(y, "current_assets"), Float(3, 10))
      [] i = "inventory_turnover" -> FMul(Input(y, "current_assets"), Float(2, 10))
      [] i = "cash_to_profit_ratio" -> Input(y, "net_profit")

\* C6: the four percentage indicators are the raw ratio multiplied by 100, every
\* other ratio indicator is the raw ratio itself (scale 1); a net profit of 900000
\* on a revenue of 10000000 gives the net_profit_margin 9.0.
C6_PercentageScale ==
    \A y \in Years :
        /\ \A i \in RatioIndicators :
               (Shows(y, i) /\ (\A f \in Reads(i) : Known(y, f))
                  /\ ~IsZero(Denominator(y, i))) =>
                   Shown(y)[i] = Scaled(Numerator(y, i), Denominator(y, i), Scale(i))
        /\ (Shows(y, "net_profit_margin")
              /\ Input(y, "net_profit") = Float(900000, 1)
              /\ Input(y, "operating_revenue") = Float(10000000, 1)) =>
               Shown(y)["net_profit_margin"] = Float(9, 1)

\* the profitability indicators of the example have been returned: 9.0, and a
\* return on an equity of 4,000,000 of 22.5
C6_Witness ==
    \E y \in Years :
        /\ Shows(y, "net_profit_margin")
        /\ Input(y, "net_profit") = Float(900000, 1)
        /\ Input(y, "operating_revenue") = Float(10000000, 1)
        /\ Input(y, "owners_equity") = Float(4000000, 1)
        /\ Shown(y)["net_profit_margin"] = Float(9, 1)
        /\ Shown(y)["return_on_equity"] = Float(225, 10)

\* the balance sheet of Scenario A
ScenarioA(y) ==
    /\ Input(y, "total_assets") = Float(10000000, 1)
    /\ Input(y, "total_liabilities") = Float(6000000, 1)
    /\ Input(y, "current_assets") = Float(6000000, 1)
    /\ Input(y, "current_liabilities") = Float(4000000, 1)

\* C7: current_ratio = current_assets / current_liabilities and quick_ratio =
\* (current_assets * 0.8) / current_liabilities, the quick assets (and with them
\* the quick ratio) missing when current_assets is missing; the balance sheet of
\* Scenario A gives debt_to_asset_ratio 60.0, current_ratio 1.5, quick_ratio 1.2.
C7_Solvency ==
    \A y \in Years :
        Shows(y, "quick_ratio") =>
            LET assets == Input(y, "current_assets")
                liabilities == Input(y, "current_liabilities")
            IN  /\ IsNone(assets) => IsNone(Shown(y)["quick_ratio"])
                /\ (~IsNone(assets) /\ ~IsNone(liabilities) /\ ~IsZero(liabilities)) =>
                       /\ Shown(y)["current_ratio"] = Scaled(assets, liabilities, One)
                       /\ Shown(y)["quick_ratio"]
                            = Scaled(FMul(assets, Float(8, 10)), liabilities, One)
                /\ ScenarioA(y) =>
                       /\ Shown(y)["debt_to_asset_ratio"] = Float(60, 1)
                       /\ Shown(y)["current_ratio"] = Float(15, 10)
                       /\ Shown(y)["quick_ratio"] = Float(12, 10)

\* the solvency indicators of Scenario A have been returned
C7_Witness ==
    \E y \in Years :
        /\ ScenarioA(y)
        /\ Shows(y, "quick_ratio")
        /\ Shown(y)["debt_to_asset_ratio"] = Float(60, 1)
        /\ Shown(y)["current_ratio"] = Float(15, 10)
        /\ Shown(y)["quick_ratio"] = Float(12, 10)

\* C8: receivables_turnover = operating_revenue / (current_assets * 0.3),
\* inventory_turnover = operating_costs / (current_assets * 0.2) and
\* total_asset_turnover = operating_revenue / total_assets, each on the balances
\* of the indicator's own year.
C8_Operations ==
    \A y \in Years :
        Shows(y, "receivables_turnover") =>
            LET revenue == Input(y, "operating_revenue")
                costs == Input(y, "operating_costs")
                current == Input(y, "current_assets")
                total == Input(y, "total_assets")
            IN  /\ (~IsNone(revenue) /\ ~IsNone(current) /\ ~IsZero(current)) =>
                       Shown(y)["receivables_turnover"]
                         = Scaled(revenue, FMul(current, Float(3, 10)), One)
                /\ (~IsNone(costs) /\ ~IsNone(current) /\ ~IsZero(current)) =>
                       Shown(y)["inventory_turnover"]
                         = Scaled(costs, FMul(current, Float(2, 10)), One)
                /\ (~IsNone(revenue) /\ ~IsNone(total) /\ ~IsZero(total)) =>
                       Shown(y)["total_asset_turnover"] = Scaled(revenue, total, One)

\* the operation indicators of a year have been returned from data that hold
\* another year with other balances: 10,000,000 / (6,000,000 * 0.3) = 5.56,
\* 7,000,000 / (6,000,000 * 0.2) = 5.83, 10,000,000 / 10,000,000 = 1.0
C8_Witness ==
    \E y, z \in Years :
        /\ y # z
        /\ ScenarioA(y)
        /\ Known(z, "current_assets") /\ Known(z, "total_assets")
        /\ Input(z, "current_assets") # Input(y, "current_assets")
        /\ Input(z, "total_assets") # Input(y, "total_assets")
        /\ Input(y, "operating_revenue") = Float(10000000, 1)
        /\ Input(y, "operating_costs") = Float(7000000, 1)
        /\ Shows(y, "receivables_turnover")
        /\ Shown(y)["receivables_turnover"] = Float(556, 100)
        /\ Shown(y)["inventory_turnover"] = Float(583, 100)
        /\ Shown(y)["total_asset_turnover"] = Float(1, 1)

\* C9: the outputs operating_cash_flow and net_cash_increase are exactly the input
\* cash-flow-statement values (not scaled, not rounded, missing when missing),
\* whatever net_profit is; cash_to_profit_ratio = operating_cash_flow / net_profit
\* is missing when net_profit is missing or 0.
C9_CashFlow ==
    \A y \in Years :
        Shows(y, "cash_to_profit_ratio") =>
            LET cash == Input(y, "operating_cash_flow")
                profit == Input(y, "net_profit")
            IN  /\ Shown(y)["operating_cash_flow"] = cash
                /\ Shown(y)["net_cash_increase"] = Input(y, "net_cash_increase")
                /\ (IsNone(profit) \/ IsZero(profit)) =>
                       IsNone(Shown(y)["cash_to_profit_ratio"])
                /\ (~IsNone(cash) /\ ~IsNone(profit) /\ ~IsZero(profit)) =>
                       Shown(y)["cash_to_profit_ratio"] = Scaled(cash, profit, One)

\* an operating cash flow of 123456.78 and a net increase of 33.333 have been
\* returned as they are, with the ratio 123456.78 / 900000 = 0.14
C9_Witness ==
    \E y \in Years :
        /\ Shows(y, "cash_to_profit_ratio")
        /\ Input(y, "operating_cash_flow") = Float(12345678, 100)
        /\ Input(y, "net_cash_increase") = Float(33333, 1000)
        /\ Input(y, "net_profit") = Float(900000, 1)
        /\ Shown(y)["operating_cash_flow"] = Float(12345678, 100)
        /\ Shown(y)["net_cash_increase"] = Float(33333, 1000)
        /\ Shown(y)["cash_to_profit_ratio"] = Float(14, 100)

RevenueIndicators ==
    {"net_profit_margin", "gross_profit_margin", "total_asset_turnover",
     "receivables_turnover"}

\* the input data with the operating_revenue of year y set to v
WithRevenue(y, v) ==
    LET entry == financial_data.map[y]
        income == IF "income_statement" \in DOMAIN entry
                  THEN entry["income_statement"] ELSE EmptyDict
        revenue == [f \in DOMAIN income \cup {"operating_revenue"} |->
                       IF f = "operating_revenue" THEN v ELSE income[f]]
    IN  [financial_data EXCEPT
            !.map[y] = [s \in DOMAIN entry \cup {"income_statement"} |->
                           IF s = "income_statement" THEN revenue ELSE entry[s]]]

\* the indicators of year y on those data, by name
ShownWithRevenue(y, v) ==
    LET e == YearEntry([data |-> WithRevenue(y, v), years |-> years], y).value
    IN  e.Profitability @@ e.Solvency @@ e.Operations @@ e.CashFlow

\* C10: when the operating_revenue of a year is missing, its net_profit_margin,
\* gross_profit_margin, total_asset_turnover and receivables_turnover are missing,
\* and every other indicator of the year has the value it has with any revenue
\* present.
C10_RevenueMissing ==
    \A y \in Years :
        (HasYear(y) /\ ~Known(y, "operating_revenue")) =>
            \A i \in DOMAIN Shown(y) :
                IF i \in RevenueIndicators THEN IsNone(Shown(y)[i])
                ELSE \A v \in Nums : Shown(y)[i] = ShownWithRevenue(y, v)[i]

\* all indicators of a year without revenue have been returned, those that read
\* the revenue missing and solvency, return on equity and inventory turnover numbers
C10_Witness ==
    \E y \in Years :
        /\ last_call.op = "calculate_all_indicators"
        /\ HasYear(y)
        /\ ~Known(y, "operating_revenue")
        /\ Shows(y, "net_profit_margin")
        /\ \A i \in RevenueIndicators : IsNone(Shown(y)[i])
        /\ \A i \in {"debt_to_asset_ratio", "current_ratio", "quick_ratio",
                     "return_on_equity", "inventory_turnover"} : IsFinite(Shown(y)[i])

\* a value with at most 2 decimal places
TwoDecimals(v) == IsFinite(v) /\ 100 % v.d = 0

\* C11: every ratio indicator that is not missing is a value with at most 2
\* decimal places, and it is numerator / denominator * scale rounded once, the
\* gross profit and the 0.8 / 0.3 / 0.2 estimates entering the division
\* unrounded; _safe_divide(33.333, 100, 100) = 33.33.
C11_RoundedOnce ==
    /\ _safe_divide(Float(33333, 1000), Hundred, Hundred) = Float(3333, 100)
    /\ \A y \in Years : \A i \in RatioIndicators :
           (Shows(y, i) /\ ~IsNone(Shown(y)[i])) =>
               /\ TwoDecimals(Shown(y)[i])
               /\ Shown(y)[i] = Scaled(Numerator(y, i), Denominator(y, i), Scale(i))

\* a ratio indicator has been returned that is an infinity
C11_Witness ==
    \E y \in Years : \E i \in RatioIndicators :
        /\ Shows(y, i)
        /\ \A f \in Reads(i) : IsFinite(Input(y, f))
        /\ IsInf(Shown(y)[i])

\* the input data d without year z, and with year z holding the entry e
Without(d, z) ==
    [order |-> SelectSeq(d.order, LAMBDA x : x # z),
     map |-> [x \in DOMAIN d.map \ {z} |-> d.map[x]]]

With(d, z, e) ==
    [order |-> IF z \in DOMAIN d.map THEN d.order ELSE Append(d.order, z),
     map |-> [x \in DOMAIN d.map \cup {z} |-> IF x = z THEN e ELSE d.map[x]]]

\* the inputs that agree with the input data on every year but z
Variants(z) == {Without(financial_data, z)} \cup {With(financial_data, z, e) : e \in Profiles}

\* what calculate_all_indicators returns for a calculator constructed on d
AllOn(d) == calculate_all_indicators(IndicatorCalculator(d))

\* C12: for two inputs that agree on a year and differ in any way on another
\* year (changed or omitted), calculate_all_indicators returns the same
\* indicators for the year they agree on.
C12_YearIndependence ==
    last_call.op = "calculate_all_indicators" =>
        /\ IsReturn(ret)
        /\ \A z \in Years : \A d \in Variants(z) : \A other \in {AllOn(d)} :
               /\ IsReturn(other)
               /\ \A y \in DOMAIN financial_data.map \ {z} :
                      other.value.map[y] = ret.value.map[y]

\* calculate_all_indicators has returned for two years with different statements,
\* the year of Scenario A with its current ratio 1.5
C12_Witness ==
    /\ last_call.op = "calculate_all_indicators"
    /\ \E y, z \in Years :
           /\ y # z /\ HasYear(y) /\ HasYear(z)
           /\ financial_data.map[y] = FixtureA
           /\ financial_data.map[z] = FixtureB
           /\ Shown(y)["current_ratio"] = Float(15, 10)

C14_CallerOrder ==
    last_call.op = "calculate_all_indicators" =>
        /\ IsReturn(ret)
        /\ ret.value.order = financial_data.order

\* C14: calculate_all_indicators processes the years of the input, and emits
\* them in its result, from the most recent year to the oldest, whatever the
\* order in which the caller supplied them.
C14_MostRecentFirst ==
    last_call.op = "calculate_all_indicators" =>
        /\ IsReturn(ret)
        /\ Range(ret.value.order) = DOMAIN financial_data.map
        /\ Len(ret.value.order) = Cardinality(DOMAIN financial_data.map)
        /\ \A i, j \in DOMAIN ret.value.order :
               i < j => ret.value.order[i] > ret.value.order[j]

\* calculate_all_indicators has returned for an input supplied oldest year first
C14_Witness ==
    /\ last_call.op = "calculate_all_indicators"
    /\ IsReturn(ret)
    /\ Len(financial_data.order) > 1
    /\ financial_data.order[1] < financial_data.order[2]
    /\ ret.value.order[1] > ret.value.order[2]

\* C15: the result of calculate_all_indicators has exactly one entry per year of
\* the input and no other year; every entry has exactly the four dimensions and
\* every dimension exactly its three named indicators, whatever statements or
\* fields the input lacks.
C15_ResultShape ==
    last_call.op = "calculate_all_indicators" =>
        /\ IsReturn(ret)
        /\ DOMAIN ret.value.map = DOMAIN financial_data.map
        /\ Range(ret.value.order) = DOMAIN financial_data.map
        /\ Len(ret.value.order) = Cardinality(DOMAIN financial_data.map)
        /\ \A y \in DOMAIN ret.value.map :
               /\ DOMAIN ret.value.map[y] = Dimensions
               /\ \A dimension \in Dimensions :
                      DOMAIN ret.value.map[y][dimension]
                        = IndicatorsOf(CalculatorOf(dimension))

\* calculate_all_indicators has returned for an input with a year that has no
\* statement at all and a year that lacks a field
C15_Witness ==
    /\ last_call.op = "calculate_all_indicators"
    /\ IsReturn(ret)
    /\ \E y, z \in DOMAIN financial_data.map :
           /\ DOMAIN financial_data.map[y] = {}
           /\ financial_data.map[z] = FixtureB
           /\ DOMAIN ret.value.map[y] = Dimensions
           /\ IsNone(ret.value.map[y]["CashFlow"]["net_cash_increase"])

\* C16: a calculation pass only reads its input.  While calls of
\* calculate_all_indicators on independent inputs run concurrently, no step
\* changes the data or the years of a calculator (the caller's mapping is the
\* calculator's data); the dict a call returns is one no other call holds; and
\* every call returns what it returns when it runs alone.
C16_ReadOnlyFreshResult ==
    /\ [][\A c \in Callers : calls'[c].self = calls[c].self]_vars
    /\ [](\A c, d \in Callers :
              (c # d /\ calls[c].pc # "ready" /\ calls[d].pc # "ready") =>
                  calls[c].result # calls[d].result)
    /\ [](\A c \in Callers :
              /\ calls[c].pc # "raised"
              /\ calls[c].pc = "returned" =>
                     heap[calls[c].result] = AllOn(calls[c].self.data).value)

\* two calls, on different inputs of two years each, have both returned, each
\* with a result of its own
C16_Witness ==
    /\ calls # << >>
    /\ \A c \in Callers : calls[c].pc = "returned"
    /\ calls["a"].self.data # calls["b"].self.data
    /\ \A c \in Callers : Len(calls[c].self.years) > 1
    /\ heap["a"] # heap["b"]

Loaders == {"get_financial_data", "get_profit_statement_from_db", "_load_profit_statement"}

\* what the statement a loader returned holds for field f: missing when the
\* value is None or f is no key
Loaded(f) == IF f \in DOMAIN ret.value THEN ret.value[f] ELSE None

\* C17: each loader keeps missing and zero apart: a source cell is loaded as
\* missing only when it is absent, null/NaN or unparseable; an absent or null
\* cell is never loaded as 0; a numeric zero is loaded as the number 0.
C17_MissingIsNotZero ==
    (last_call.op \in Loaders /\ IsReturn(ret)) =>
        \A f \in IncomeFields :
            LET cell == last_call.args[1][f]
            IN  /\ IsNone(Loaded(f)) => cell \in {Absent, Null, Text}
                /\ cell \in {Absent, Null} => IsNone(Loaded(f))
                /\ (IsFloat(cell) /\ IsZero(cell)) => Loaded(f) = Float(0, 1)

\* the database loader of app.py has loaded a net profit of 0 as missing
C17_Witness ==
    /\ last_call.op = "get_profit_statement_from_db"
    /\ IsReturn(ret)
    /\ last_call.args[1]["net_profit"] = Float(0, 1)
    /\ IsNone(Loaded("net_profit"))

\* a > b for two floats that are no nan
Above(a, b) ==
    IF ~IsFinite(a) \/ ~IsFinite(b) THEN (a = PosInf /\ b # PosInf) \/ (b = NegInf /\ a # NegInf)
    ELSE \/ a.n \div a.d > b.n \div b.d
         \/ /\ a.n \div a.d = b.n \div b.d
            /\ (a.n % a.d) * b.d > (b.n % b.d) * a.d

\* C18: in the year comparison of a dimension's prompt, each indicator that has
\* a value in the most recent year and in the year before has a line, whose
\* trend is rising when the recent value is greater, falling when it is smaller
\* and flat when the two are equal; an indicator missing in either year has no
\* line; with fewer than two years nothing is compared.
C18_TrendLines ==
    last_call.op = "_build_risk_analysis_prompt" =>
        LET dimension == last_call.args[1]
            all == AllOn(financial_data).value.map
            lines == ret.value.lines
        IN  IF Len(years) < 2
            THEN ret.value.compared = << >> /\ DOMAIN lines = {}
            ELSE /\ ret.value.compared = <<years[1], years[2]>>
                 /\ years[1] > years[2]
                 /\ \A y \in Range(years) : y <= years[2] \/ y = years[1]
                 /\ \A i \in IndicatorsOf(CalculatorOf(dimension)) :
                        LET new == all[years[1]][dimension][i]
                            old == all[years[2]][dimension][i]
                        IN  /\ i \in DOMAIN lines <=> (~IsNone(new) /\ ~IsNone(old))
                            /\ i \in DOMAIN lines =>
                                   lines[i].trend =
                                       IF Above(new, old) THEN "rising"
                                       ELSE IF Above(old, new) THEN "falling"
                                       ELSE "flat"

\* the cash-flow prompt of a recent year with an operating cash flow of 123456.78
\* and a year before with -7/3 and no net cash increase has a rising line, a
\* falling line (0.14 after 18.67) and no line for the net cash increase
C18_Witness ==
    /\ last_call.op = "_build_risk_analysis_prompt"
    /\ last_call.args[1] = "CashFlow"
    /\ Len(years) > 1
    /\ financial_data.map[years[1]] = FixtureA
    /\ financial_data.map[years[2]] = FixtureB
    /\ DOMAIN ret.value.lines = {"operating_cash_flow", "cash_to_profit_ratio"}
    /\ ret.value.lines["operating_cash_flow"].trend = "rising"
    /\ ret.value.lines["cash_to_profit_ratio"].trend = "falling"


\* the charts of the last call, and the report's years they are drawn over
ReportYears == TwoMostRecent(financial_data.order)

\* the value AllIndicators holds for a series at a year: missing when the key
\* is not there
IndicatorAt(year, key) ==
    LET entry == AllOn(financial_data).value.map[year]
    IN  IF key[1] \in DOMAIN entry THEN Get(entry[key[1]], key[2]) ELSE None

\* the same years with every indicator present
Complete ==
    [order |-> years,
     map |-> [y \in Range(years) |->
                 [d \in Dimensions |->
                     [i \in IndicatorsOf(CalculatorOf(d)) |-> Float(1, 1)]]]]

\* C19: in the charts that generate_all_charts returns, a series has no point
\* (None, never 0 or another number) at a year where AllIndicators has no value
\* for what the series plots; and the charts returned are the ones returned for
\* the same years with no indicator missing.
C19_MissingIsOmitted ==
    last_call.op = "generate_all_charts" =>
        /\ \A chart \in DOMAIN ret.value : \A key \in DOMAIN ret.value[chart] :
              \A k \in 1..Len(ReportYears) :
                  IsNone(IndicatorAt(ReportYears[k], key)) =>
                      IsNone(ret.value[chart][key][k])
        /\ DOMAIN ret.value =
              DOMAIN generate_all_charts(last_call.args[1], ReportYears, Complete).value

\* the charts of EChartsGenerator for two years, the earlier one without
\* operating revenue: the gross margin series has a value for the recent year
\* and no point for the earlier one, and all seven charts are returned
C19_Witness ==
    /\ last_call.op = "generate_all_charts"
    /\ last_call.args[1] = "EChartsGenerator"
    /\ Len(ReportYears) = 2
    /\ ~IsNone(IndicatorAt(ReportYears[1], <<"Profitability", "gross_profit_margin">>))
    /\ IsNone(IndicatorAt(ReportYears[2], <<"Profitability", "gross_profit_margin">>))
    /\ DOMAIN ret.value = Range(ChartNames)
    /\ ~IsNone(ret.value["profitability"][<<"Profitability", "gross_profit_margin">>][1])
    /\ IsNone(ret.value["profitability"][<<"Profitability", "gross_profit_margin">>][2])

\* the texts that say a value is missing
DataMissingMarkers == {Literal("[data missing]"), Literal("data missing")}

\* a text that shows the number v and nothing else
ShowsNumber(text, v) ==
    /\ text \notin DataMissingMarkers
    /\ text.kind \in {"repr", "fixed"}
    /\ text.value = IF text.kind = "fixed" THEN Round2(v, IsExact(v)) ELSE v

\* C20: format_indicator_value and format_number return the data-missing marker
\* for a missing value and the number's digits for any other value (zero
\* included); in the indicator tables of the Word and PDF exports, every
\* dimension has its table, and in each row the cell of the most recent year
\* and the cell of the previous year are the marker exactly when the indicator
\* is missing in that year, and the number otherwise.
C20_MissingIsMarked ==
    /\ last_call.op \in {"format_indicator_value", "format_number"} =>
          IF IsNone(last_call.args[1]) THEN ret.value \in DataMissingMarkers
          ELSE ShowsNumber(ret.value, last_call.args[1])
    /\ last_call.op \in {"export_to_word", "export_to_pdf"} =>
          LET all == AllOn(financial_data).value.map
              tables == ret.value
          IN  IF ReportYears = << >> THEN DOMAIN tables = {}
              ELSE /\ DOMAIN tables = Dimensions
                   /\ \A d \in Dimensions :
                        /\ DOMAIN tables[d] = IndicatorsOf(CalculatorOf(d))
                        /\ \A i \in DOMAIN tables[d] : \A k \in 1..Len(ReportYears) :
                              LET v == all[ReportYears[k]][d][i]
                              IN  IF IsNone(v) THEN tables[d][i][k] \in DataMissingMarkers
                                  ELSE ShowsNumber(tables[d][i][k], v)

\* a Word export of two years whose most recent year has no net cash increase
\* while the year before has one: the row shows the marker, then the number,
\* then no change; the operating cash flow row shows two numbers
C20_Witness ==
    /\ last_call.op = "export_to_word"
    /\ Len(ReportYears) = 2
    /\ financial_data.map[ReportYears[1]] = FixtureB
    /\ financial_data.map[ReportYears[2]] = FixtureA
    /\ ret.value["CashFlow"]["net_cash_increase"][1] = Literal("data missing")
    /\ ret.value["CashFlow"]["net_cash_increase"][2].kind = "fixed"
    /\ ret.value["CashFlow"]["net_cash_increase"][3] = Literal("-")
    /\ ret.value["CashFlow"]["operating_cash_flow"][1].kind = "fixed"
    /\ ret.value["CashFlow"]["operating_cash_flow"][2].kind = "fixed"

\* the account that sent the last request, as the session of its browser
\* named it when the request arrived
Succeeded == last_call # Idle /\ IsReturn(ret) /\ Succeeds(ret.value)
AdminOperations ==
    {"add_user", "edit_user", "delete_user", "change_user_role", "toggle_user_status"}

\* C21: after any sequence of add_user, edit_user, delete_user,
\* change_user_role and toggle_user_status requests on a user store that
\* has an administrator, the store still has an account with role admin.
C21_AdminRemains == \E u \in DOMAIN users_db : users_db[u].role = "admin"

\* an administrator's request has succeeded
C21_Witness == last_call.op \in AdminOperations /\ Succeeded

\* the account a session names is in the user store, an administrator and
\* enabled
CurrentAdmin(cookie) ==
    /\ Has(cookie, "username")
    /\ cookie.username \in DOMAIN users_db
    /\ users_db[cookie.username].role = "admin"
    /\ users_db[cookie.username].status = "active"

\* C22: every administrator-only operation that succeeds is performed by an
\* account that, when the request arrives, is in the user store with role
\* admin and status active, whatever logins, role changes, status toggles
\* and deletions came before.
C22_AdminIsCurrent ==
    [][(/\ last_call = Idle
        /\ last_call'.op \in AdminOperations
        /\ Succeeds(ret'.value))
       => CurrentAdmin(session[last_call'.args[1]])]_vars

\* a deletion or a status toggle (neither can touch the caller's own
\* account) has succeeded for a session whose account is no administrator
\* of the user store
C22_Witness ==
    /\ last_call.op \in {"delete_user", "toggle_user_status"}
    /\ Succeeded
    /\ ~CurrentAdmin(session[last_call.args[1]])

\* the record an account has in a user store (None when it has none)
RecordOf(db, username) == IF username \in DOMAIN db THEN db[username] ELSE None

\* C24: edit_user fails atomically: whenever it answers with an error
\* (unknown user, e-mail used by another account, new password shorter
\* than 6 characters) the record of the target account in the user store
\* is the one it was before the request.
C24_EditFailsAtomically ==
    [][(/\ last_call = Idle
        /\ last_call'.op = "edit_user"
        /\ ret'.value.error # "")
       => RecordOf(users_db', last_call'.args[2]) = RecordOf(users_db, last_call'.args[2])]_vars

\* edit_user has refused a password that is too short
C24_Witness ==
    /\ last_call.op = "edit_user"
    /\ IsReturn(ret) /\ ret.value.error = "password too short"

ReportOperations ==
    {"view_report", "get_report_data", "export_report", "ai_chat", "delete_report"}

\* the account a session names is no administrator of the user store
NoAdmin(cookie) ==
    cookie.username \notin DOMAIN users_db \/ users_db[cookie.username].role # "admin"

\* a request on a stored report is answered as the permissions say, when
\* `plain` tells which requesters are no administrators: a requester who
\* is none succeeds on reports of their own only, an administrator is
\* never refused a stored report, and a refusal leaves report_storage as
\* it was
ReportsGuarded(plain(_)) ==
    (last_call = Idle /\ last_call'.op \in ReportOperations /\ ret'.value.location # "login")
    => LET cookie == session[last_call'.args[1]]
           id == last_call'.args[2]
           answer == ret'.value
       IN  /\ (Succeeds(answer) /\ plain(cookie))
              => (id \in DOMAIN report_storage
                  /\ report_storage[id].created_by = cookie.username)
           /\ (~plain(cookie) /\ id \in DOMAIN report_storage)
              => answer.error \notin {NotFound, Forbidden}
           /\ answer.error \in {NotFound, Forbidden} => report_storage' = report_storage

\* the same with the requester taken as what the session cookie says
SessionIsPlain(cookie) == cookie.role # "admin"
ReportsGuardedBySession == [][ReportsGuarded(SessionIsPlain)]_vars

\* C23: a user who is no administrator can view, fetch, export, chat about
\* or delete a stored report only if its created_by is their own username;
\* an administrator can do so for every report; a denied or not-found
\* request leaves the report storage unchanged.
C23_OwnReportsOnly == [][ReportsGuarded(NoAdmin)]_vars

\* a request on a report of another user has succeeded for a session whose
\* account is no administrator
C23_Witness ==
    /\ last_call.op \in {"view_report", "get_report_data", "export_report", "ai_chat"}
    /\ Succeeded
    /\ NoAdmin(session[last_call.args[1]])
    /\ report_storage[last_call.args[2]].created_by # session[last_call.args[1]].username

Generations == {"upload_file", "generate_mysql_report"}

\* C26: two report generations that both succeed are stored under distinct
\* report ids: in any interleaving of upload_file and generate_mysql_report
\* requests a successful generation overwrites no stored report, and the
\* number of stored reports grows by one with each success.
C26_EachSuccessAddsAReport ==
    [][(/\ last_call = Idle
        /\ last_call'.op \in Generations
        /\ Succeeds(ret'.value))
       => /\ DOMAIN report_storage' # DOMAIN report_storage
          /\ Cardinality(DOMAIN report_storage') = Cardinality(DOMAIN report_storage) + 1
          /\ \A id \in DOMAIN report_storage : report_storage'[id] = report_storage[id]]_vars

\* a generation has succeeded while the report of another user is stored
C26_Witness ==
    /\ last_call.op \in Generations
    /\ Succeeded
    /\ \E id \in DOMAIN report_storage :
          report_storage[id].created_by # session[last_call.args[1]].username

\* C25: reports survive persistence unchanged: for a report written by
\* save_reports and read back by load_reports, indicators[year] (and with it
\* indicators[year][dimension]) and financial_data[year], looked up with
\* each year of the report's years, are what they were before, so that the
\* exports of a reloaded report show the same indicator tables.
C25_ReloadKeepsLookups ==
    \A id \in DOMAIN report_storage :
        LET before == report_storage[id]
            after == load_reports(save_reports(report_storage))[id]
        IN  /\ after.years = before.years
            /\ \A i \in DOMAIN before.years :
                  /\ IndicatorsOfYear(after, before.years[i])
                       = IndicatorsOfYear(before, before.years[i])
                  /\ StatementsOfYear(after, before.years[i])
                       = StatementsOfYear(before, before.years[i])
            /\ IndicatorTables(after.years, ByInt(after.indicators), TRUE)
                 = IndicatorTables(before.years, ByInt(before.indicators), TRUE)

\* a report with years has been read back by load_reports, and its
\* indicators are not found under its most recent year
C25_Witness ==
    /\ last_call.op = "load_reports"
    /\ \E id \in DOMAIN report_storage :
          /\ report_storage[id].years # << >>
          /\ IsNone(IndicatorsOfYear(report_storage[id], report_storage[id].years[1]))

\* C27: the rule-based overall assessment lists, of the most recent year's
\* net profit margin, debt-to-asset ratio, total asset turnover and
\* operating cash flow, each one that is not missing, when it is given the
\* argument that generate_report and generate_mysql_report pass.
C27_KeyDataListed ==
    last_call.op = "_get_default_overall_assessment" =>
        \A k \in DOMAIN KeyData :
            ReportYears # << >> =>
                LET value == IndicatorAt(ReportYears[1], KeyData[k])
                    key_data == ret.value.key_data
                IN  ~IsNone(value) =>
                        \E i \in DOMAIN key_data :
                            /\ key_data[i].indicator = KeyData[k][2]
                            /\ ShowsNumber(key_data[i].text, value)

\* the overall assessment of a report whose most recent year has a net
\* profit margin
C27_Witness ==
    /\ last_call.op = "_get_default_overall_assessment"
    /\ ReportYears # << >>
    /\ ~IsNone(IndicatorAt(ReportYears[1], KeyData[1]))

\* the indicators of a dimension in the most recent year of the report, as
\* generate_report hands them to the analysis
CurrentIndicators(dimension) ==
    IF ReportYears = << >> THEN EmptyDict
    ELSE AllOn(financial_data).value.map[ReportYears[1]][dimension]

\* the indicators that decide the level of a dimension
Deciding(dimension) ==
    CASE dimension = "Profitability" -> {"net_profit_margin"}
      [] dimension = "Solvency" -> {"debt_to_asset_ratio"}
      [] dimension = "Operations" -> {"total_asset_turnover"}
      [] dimension = "CashFlow" -> {"operating_cash_flow", "cash_to_profit_ratio"}

\* the value of a deciding indicator is within its low-risk threshold
MeetsLowRisk(indicator, value) ==
    CASE indicator = "net_profit_margin" -> ~Less(value, Float(5, 1))
      [] indicator = "debt_to_asset_ratio" -> ~Less(Float(50, 1), value)
      [] indicator = "total_asset_turnover" -> ~Less(value, Float(1, 2))
      [] indicator = "operating_cash_flow" -> ~Less(value, Float(0, 1))
      [] indicator = "cash_to_profit_ratio" -> ~Less(value, Float(4, 5))

\* C28: the rule-based analysis rates a dimension low risk only when a
\* deciding indicator is present and within its low-risk threshold; when
\* every deciding indicator is missing and another indicator is present the
\* dimension is rated medium risk; when every indicator is missing no risk
\* level is claimed.
C28_LowRiskIsDecided ==
    last_call.op = "_get_default_analysis" =>
        LET indicators == CurrentIndicators(last_call.args[1])
            present == {i \in DOMAIN indicators : ~IsNone(indicators[i])}
            deciding == Deciding(last_call.args[1]) \cap present
        IN  /\ ret.value.risk_level = "low risk" =>
                  /\ deciding # {}
                  /\ \A i \in deciding : MeetsLowRisk(i, indicators[i])
            /\ (deciding = {} /\ present # {}) => ret.value.risk_level = "medium risk"
            /\ present = {} => ret.value.risk_level = "cannot be judged"

\* the analysis of the cash-flow dimension when only the net cash increase
\* is present
C28_Witness ==
    /\ last_call.op = "_get_default_analysis"
    /\ last_call.args[1] = "CashFlow"
    /\ LET indicators == CurrentIndicators("CashFlow")
       IN  {i \in DOMAIN indicators : ~IsNone(indicators[i])} = {"net_cash_increase"}

\* C29: zero is a value, not an absence. A ratio indicator whose numerator is a
\* known 0 and whose denominator is known and not 0 is 0 (not missing); a known
\* current_assets of 0 makes receivables_turnover and inventory_turnover missing
\* and, when current_liabilities is known and not 0, leaves current_ratio and
\* quick_ratio equal to 0; quick_ratio is missing exactly when current_ratio is.
C29_ZeroIsAValue ==
    \A y \in Years :
        /\ \A i \in RatioIndicators :
               (Shows(y, i) /\ (\A f \in Reads(i) : Known(y, f))
                  /\ IsZero(Numerator(y, i)) /\ ~IsZero(Denominator(y, i))) =>
                   IsZero(Shown(y)[i])
        /\ (Shows(y, "receivables_turnover") /\ Known(y, "current_assets")
              /\ IsZero(Input(y, "current_assets"))) =>
               /\ IsNone(Shown(y)["receivables_turnover"])
               /\ IsNone(Shown(y)["inventory_turnover"])
        /\ (Shows(y, "quick_ratio") /\ Known(y, "current_assets")
              /\ IsZero(Input(y, "current_assets"))
              /\ NonZero(y, "current_liabilities")) =>
               /\ IsZero(Shown(y)["current_ratio"])
               /\ IsZero(Shown(y)["quick_ratio"])
        /\ Shows(y, "quick_ratio") =>
               (IsNone(Shown(y)["quick_ratio"]) <=> IsNone(Shown(y)["current_ratio"]))

\* the solvency indicators of a year whose current_assets are 0 and whose
\* current_liabilities are a number other than 0 have been returned: both
\* liquidity ratios are 0
C29_Witness ==
    \E y \in Years :
        /\ Shows(y, "quick_ratio")
        /\ Known(y, "current_assets")
        /\ IsZero(Input(y, "current_assets"))
        /\ NonZero(y, "current_liabilities")
        /\ IsZero(Shown(y)["current_ratio"])
        /\ IsZero(Shown(y)["quick_ratio"])

=============================================================================
